---- MODULE Spec2Model ----
(***************************************************************************)
(* svelte-persisted-state: the persistence / synchronisation core.         *)
(*                                                                         *)
(* persistedStateAsync (src/src/lib/index.svelte.ts, lines 313-450) as a   *)
(* state machine: several container instances over one IndexedDB backend   *)
(* and the BroadcastChannel that connects them.                            *)
(*                                                                         *)
(* Scheduling.  JavaScript runs one task at a time per realm and drains    *)
(* the microtask queue after every task.  Svelte runs a scheduled $effect  *)
(* in a microtask.  Hence                                                  *)
(*   - a holder task may assign `current` several times; the effect then   *)
(*     runs once, on the last value (Construct / Set / Reset set `dirty`,  *)
(*     EffectRun is the microtask that ends the holder's task);            *)
(*   - an event task (a BroadcastChannel message, the completion of the    *)
(*     IndexedDB read) starts only when no effect is pending, and the      *)
(*     effect it schedules runs before any other task of that container:   *)
(*     the event actions include that effect run.                          *)
(*                                                                         *)
(* persistedState (lines 224-311) is the second state machine: containers  *)
(* in separate tabs over localStorage / sessionStorage / cookies and the   *)
(* platform's storage events.  Its variables are at rest in the behaviours *)
(* of the asynchronous containers, and conversely.                         *)
(***************************************************************************)
EXTENDS Integers, Sequences, FiniteSets, TLC

\* ------------------------------------------------------------------ bounds
\* Holder values are the numbers 0..MaxVal and the object {count: MaxVal}.
MaxVal == 1
\* Total number of holder mutations (assignments and resets) in a behaviour.
MaxMut == 1
\* Messages posted on the broadcast channel by other code of the origin.
MaxPost == 1
\* Storage events dispatched by other code of the origin.
MaxEv == 1
\* Storage events dispatched at one tab's window in a behaviour.
MaxSeen == 2
\* Calls of reset() of the persistedState containers beyond MaxMut mutations.
MaxReset == 2
\* Direct calls of getItem / setItem of indexeddb-storage.js.
MaxCall == 3

Cont == {"A", "B"}
Keys == {"k1", "k2"}
DBs == {"db1", "db2"}
Stores == {"s1", "s2"}

\* ------------------------------------------------------------------ values
\* A value is a record [t, n]:
\*   num  n          the number n                    (a primitive)
\*   obj  n          the object {count: n}           (compared by identity)
\*   jnum n, jobj n  the JSON text of num n / obj n  (a string, a primitive)
\*   bad             a text that is not JSON         ('invalid JSON{{{')
\*   null            nothing stored / no value
Num(n) == [t |-> "num", n |-> n]
Obj(n) == [t |-> "obj", n |-> n]
JNum(n) == [t |-> "jnum", n |-> n]
JObj(n) == [t |-> "jobj", n |-> n]
Bad == [t |-> "bad", n |-> 0]
Null == [t |-> "null", n |-> 0]

Vals == {Num(n) : n \in 0..MaxVal} \cup {Obj(MaxVal)}

\* The result of a call that may throw.
Ok(v) == [ok |-> TRUE, v |-> v]
Threw == [ok |-> FALSE, v |-> Null]

\* JSON.parse(text).  A number argument is coerced to its text and parses to
\* itself; an object argument is coerced to "[object Object]" and throws.
Parse(raw) ==
    CASE raw.t = "jnum" -> Ok(Num(raw.n))
      [] raw.t = "jobj" -> Ok(Obj(raw.n))
      [] raw.t = "num" -> Ok(Num(raw.n))
      [] raw.t \in {"bad", "obj"} -> Threw

\* JSON.stringify(value) of a number or of an object {count: n}.
Stringify(v) ==
    CASE v.t = "num" -> Ok(JNum(v.n))
      [] v.t = "obj" -> Ok(JObj(v.n))

\* beforeRead / beforeWrite: the default (v) => v, the doubling transform of
\* the tests ((v) => ({count: v.count * 2}), and its number form), a
\* transform that throws, and a validating transform that throws unless the
\* count is positive.
Transform(tr, v) ==
    CASE tr = "id" -> Ok(v)
      [] tr = "dbl" /\ v.t \in {"num", "obj"} -> Ok([v EXCEPT !.n = 2 * v.n])
      [] tr = "throw" -> Threw
      [] tr = "pos" -> IF v.n > 0 THEN Ok(v) ELSE Threw

\* Svelte's $state setter: set(source, value) notifies the reactions only
\* when the source's equals (===) says the value changed.  Primitives compare
\* by value; an assigned object is wrapped in a fresh proxy, so an object
\* assignment always counts as a change.
Changed(old, new) == new.t = "obj" \/ old # new

\* ------------------------------------------------------------------- state
VARIABLES
    cfg,            \* per container: key, initialValue and options (constant);
                    \* oh: the onHydrated callback returns ("ok") or throws
    store,          \* IndexedDB: <<dbName, storeName, key>> -> raw value or Null
    hyd,            \* "none" | "reading" | "answered" | "done" | "failed"
                    \* ("absent": the behaviour has no such container)
    rd,             \* storedValue: the result of hydrate()'s idbGetItem
    state,          \* let state = $state<T>(initialValue)
    isLoading,      \* let isLoading = $state(browser)
    ready,          \* the ready promise: [st, v]
    skipNextWrite,  \* let skipNextWrite = false
    isFirstRun,     \* let isFirstRun = true (in $effect.root)
    dirty,          \* the persist $effect is scheduled
    depLoading,     \* the persist $effect read isLoading in its last run
    wq,             \* idbSetItem calls issued and not yet completed (FIFO)
    inbox,          \* BroadcastChannel messages queued for the container
    calls,          \* how often each callback / settle function was called
    mutLoad,        \* history: the holder mutated while isLoading
    lastMut,        \* history: the last holder mutation
    nMut,           \* history: number of holder mutations so far
    nPost,          \* history: number of messages posted by other code
    \* persistedState, one container per tab:
    scfg,           \* per container: key, initialValue and options (constant)
    sphase,         \* "none" | "live" ("absent": no such container)
    sstate,         \* let state = $state(storedValue)
    sdirty,         \* the $effect calling updateStorage is scheduled
    localStorage,   \* key -> text or Null, shared by the tabs
    sessionStorage, \* per tab: key -> text or Null
    cookie,         \* document.cookie: name -> encoded text or Null
    cookieString,   \* name -> expiry attributes of the last string assigned
                    \* to document.cookie for the name, or Null
    events,         \* per tab: storage events dispatched and not yet handled
    scalls,         \* per container: callback and setItem call counts
    sLast,          \* history: the last holder mutation of a sync container
    nSMut,          \* history: number of holder mutations of sync containers
    nEv,            \* history: number of storage events from other code
    \* indexeddb-storage.js, called directly:
    connectionCache, \* cache key -> number of the cached connection, or 0
    opened,         \* the connections that are open: [n, id]
    ops,            \* per caller: the getItem / setItem call in progress
    results,        \* per caller: how its last call settled
    nCall,          \* history: number of calls so far
    users           \* per caller: the database options and the channel of
                    \* the persistedStateAsync container that makes its calls

\* The variables of the persistedState machine.
svars == <<scfg, sphase, sstate, sdirty, localStorage, sessionStorage, cookie,
           cookieString, events, scalls, sLast, nSMut, nEv>>

\* The variables of the persistedStateAsync machine.
avars == <<cfg, store, hyd, rd, state, isLoading, ready, skipNextWrite,
           isFirstRun, dirty, depLoading, wq, inbox, calls, mutLoad, lastMut,
           nMut, nPost>>

\* The variables of indexeddb-storage.js called directly.
cvars == <<connectionCache, opened, ops, results, nCall, users>>

vars == <<avars, svars, cvars>>

Slot(c) == <<cfg[c].db, cfg[c].sn, cfg[c].key>>
Slots == DBs \X Stores \X Keys

\* Mutant of IdbSetItem: an existing entry is kept (store.add).
IdbSetItem_KeepsExisting(slot, v) ==
    IF store[slot] = Null THEN [store EXCEPT ![slot] = v] ELSE store

\* The object store (indexeddb-storage.js): getItem resolves with the value
\* last stored under the key, or null; setItem overwrites it.
IdbGetItem(slot) == store[slot]
IdbSetItem(slot, v) == [store EXCEPT ![slot] = v]

Pending == [st |-> "pending", v |-> Null]
Resolved(v) == [st |-> "resolved", v |-> v]
Rejected(err) == [st |-> "rejected", v |-> err]

\* The errors idbGetItem may reject with: the open failed, the read failed.
OpenError == [t |-> "openError", n |-> 0]
ReadError == [t |-> "readError", n |-> 0]

\* What a callback given as an option throws.
CallbackError == [t |-> "callbackError", n |-> 0]

\* settle counts the calls of resolveReady and rejectReady; hydrationError is
\* the argument of the last onHydrationError call.
NoCalls == [onHydrated |-> 0, onHydrationError |-> 0, onParseError |-> 0,
            onWriteError |-> 0, settle |-> 0, hydrationError |-> Null]
NoMut == [c |-> "none", v |-> Null, clean |-> FALSE, chg |-> FALSE]

\* No task, microtask, backend operation or message is outstanding.
Quiescent ==
    \A c \in Cont :
        /\ hyd[c] \in {"none", "done", "failed"}
        /\ ~dirty[c]
        /\ wq[c] = <<>>
        /\ inbox[c] = <<>>

\* Mutant of HasChannel: the channel is created whatever syncTabs is.
HasChannel_Always(c) == hyd[c] # "none"

\* `const channelName = ...${indexedDBOptions.dbName ?? ...}`: the channel is
\* named by the database name alone; a container has one iff browser && syncTabs.
HasChannel(c) == hyd[c] # "none" /\ cfg[c].browser /\ cfg[c].sync
Peers(c) == {d \in Cont \ {c} : HasChannel(d) /\ cfg[d].db = cfg[c].db}

\* ----------------------------------------------------------- the $effect
\* One run of the persist effect (the function passed to $effect) on the
\* values st (state), ld (isLoading), sk (skipNextWrite), fr (isFirstRun).
\* Result: the new skipNextWrite and isFirstRun, whether the run read
\* isLoading (its dependencies are re-collected on every run), the
\* idbSetItem calls it issued and the onWriteError calls it made.
PersistEffect(c, st, ld, sk, fr) ==
    LET transformed == Transform(cfg[c].bw, st)
        valueToStore == IF ~transformed.ok THEN Threw
                        ELSE IF cfg[c].ser THEN Stringify(transformed.v)
                        ELSE Ok(transformed.v)
    IN  IF ~valueToStore.ok
        THEN [skip |-> sk, first |-> fr, dep |-> FALSE, out |-> <<>>, werr |-> 1]
        ELSE IF fr
        THEN [skip |-> sk, first |-> FALSE, dep |-> FALSE, out |-> <<>>, werr |-> 0]
        ELSE [skip |-> FALSE, first |-> FALSE, dep |-> TRUE,
              out |-> IF ~ld /\ ~sk THEN <<valueToStore.v>> ELSE <<>>,
              werr |-> 0]

\* The microtask that follows an event task: the effect runs iff the task
\* changed a source the effect depends on.
Flush(c, trig, st, ld, sk) ==
    IF trig
    THEN PersistEffect(c, st, ld, sk, isFirstRun[c])
    ELSE [skip |-> sk, first |-> isFirstRun[c], dep |-> depLoading[c],
          out |-> <<>>, werr |-> 0]

\* Mutant of ReadValue: the value is parsed also without a serializer.
ReadValue_AlwaysParses(c, raw) ==
    LET value == Parse(raw)
    IN  IF value.ok THEN Transform(cfg[c].br, value.v) ELSE Threw

\* Mutant of ReadValue: beforeRead is not applied.
ReadValue_NoBeforeRead(c, raw) ==
    IF cfg[c].ser THEN Parse(raw) ELSE Ok(raw)

\* serializer ? serializer.parse(raw) : raw, then beforeRead.
ReadValue(c, raw) ==
    LET value == IF cfg[c].ser THEN Parse(raw) ELSE Ok(raw)
    IN  IF value.ok THEN Transform(cfg[c].br, value.v) ELSE Threw

\* Mutant of HydratedValue: a read that finds nothing assigns initialValue.
HydratedValue_ResetsWhenEmpty(c, storedValue, cur) ==
    IF storedValue = Null THEN cfg[c].init
    ELSE IF ReadValue(c, storedValue).ok THEN ReadValue(c, storedValue).v
    ELSE cfg[c].init

\* Mutant of HydratedValue: a stored value that fails to parse leaves state
\* as it is.
HydratedValue_KeepsOnParseError(c, storedValue, cur) ==
    IF storedValue = Null THEN cur
    ELSE IF ReadValue(c, storedValue).ok THEN ReadValue(c, storedValue).v
    ELSE cur

\* hydrate(), lines 354-362: the value of state after the read returned
\* storedValue while state was cur.
HydratedValue(c, storedValue, cur) ==
    IF storedValue = Null THEN cur
    ELSE IF ReadValue(c, storedValue).ok THEN ReadValue(c, storedValue).v
    ELSE cfg[c].init

\* What a mutation to v makes the container hand to idbSetItem.
WriteValue(c, v) ==
    LET transformed == Transform(cfg[c].bw, v)
    IN  IF ~transformed.ok THEN Threw
        ELSE IF cfg[c].ser THEN Stringify(transformed.v)
        ELSE Ok(transformed.v)

\* ----------------------------------------------------------------- actions
\* The constructor calls happen in the order of the containers' names (the
\* containers of a behaviour are interchangeable up to their options).
Earlier(d, c) == d = "A" /\ c = "B"

\* Mutant of Construct: isLoading starts false.
Construct_NotLoading(c) ==
    /\ hyd[c] = "none"
    /\ \A d \in Cont : Earlier(d, c) => hyd[d] # "none"
    /\ hyd' = [hyd EXCEPT ![c] = "reading"]
    /\ state' = [state EXCEPT ![c] = cfg[c].init]
    /\ isLoading' = [isLoading EXCEPT ![c] = FALSE]
    /\ ready' = [ready EXCEPT ![c] = Pending]
    /\ skipNextWrite' = [skipNextWrite EXCEPT ![c] = FALSE]
    /\ isFirstRun' = [isFirstRun EXCEPT ![c] = TRUE]
    /\ dirty' = [dirty EXCEPT ![c] = TRUE]
    /\ UNCHANGED <<cfg, store, rd, depLoading, wq, inbox, calls, mutLoad, lastMut, nMut>>
    /\ UNCHANGED <<nPost, svars, cvars>>

\* persistedStateAsync(key, initialValue, options) outside a browser (no
\* window or no indexedDB): isLoading starts false, hydrate() resolves ready
\* with initialValue without reading, no channel is opened; the persist
\* effect is scheduled all the same.
ConstructOutside(c) ==
    /\ hyd[c] = "none"
    /\ ~cfg[c].browser
    /\ hyd' = [hyd EXCEPT ![c] = "done"]
    /\ state' = [state EXCEPT ![c] = cfg[c].init]
    /\ isLoading' = [isLoading EXCEPT ![c] = FALSE]
    /\ ready' = [ready EXCEPT ![c] = Resolved(cfg[c].init)]
    /\ calls' = [calls EXCEPT ![c].settle = @ + 1]
    /\ skipNextWrite' = [skipNextWrite EXCEPT ![c] = FALSE]
    /\ isFirstRun' = [isFirstRun EXCEPT ![c] = TRUE]
    /\ dirty' = [dirty EXCEPT ![c] = TRUE]
    /\ UNCHANGED <<cfg, store, rd, depLoading, wq, inbox, mutLoad, lastMut, nMut>>
    /\ UNCHANGED <<nPost, svars, cvars>>

\* persistedStateAsync(key, initialValue, options) in a browser: the cells
\* are created, hydrate() starts the read and the persist effect is scheduled.
Construct(c) ==
    /\ hyd[c] = "none"
    /\ \A d \in Cont : Earlier(d, c) => hyd[d] # "none"
    /\ hyd' = [hyd EXCEPT ![c] = "reading"]
    /\ state' = [state EXCEPT ![c] = cfg[c].init]
    /\ isLoading' = [isLoading EXCEPT ![c] = TRUE]
    /\ ready' = [ready EXCEPT ![c] = Pending]
    /\ skipNextWrite' = [skipNextWrite EXCEPT ![c] = FALSE]
    /\ isFirstRun' = [isFirstRun EXCEPT ![c] = TRUE]
    /\ dirty' = [dirty EXCEPT ![c] = TRUE]
    /\ UNCHANGED <<cfg, store, rd, depLoading, wq, inbox, calls, mutLoad, lastMut, nMut>>
    /\ UNCHANGED <<nPost, svars, cvars>>

\* The holder's assignment `container.current = v` (and reset(), which
\* assigns initialValue).
Assign(c, v) ==
    /\ hyd[c] # "none"
    /\ nMut < MaxMut
    /\ state' = [state EXCEPT ![c] = v]
    /\ dirty' = [dirty EXCEPT ![c] = dirty[c] \/ Changed(state[c], v)]
    /\ mutLoad' = [mutLoad EXCEPT ![c] = mutLoad[c] \/ isLoading[c]]
    /\ lastMut' = [c |-> c, v |-> v,
                   clean |-> Quiescent /\ \A d \in Cont : hyd[d] = "done",
                   chg |-> Changed(state[c], v)]
    /\ nMut' = nMut + 1
    /\ UNCHANGED <<cfg, store, hyd, rd, isLoading, ready, skipNextWrite,
                   isFirstRun, depLoading, wq, inbox, calls>>
    /\ UNCHANGED <<nPost, svars, cvars>>

Set(c) == \E v \in Vals : Assign(c, v)

Reset(c) == Assign(c, cfg[c].init)

\* The scheduled persist effect runs (the microtask ending a holder task).
EffectRun(c) ==
    /\ dirty[c]
    /\ LET e == PersistEffect(c, state[c], isLoading[c], skipNextWrite[c], isFirstRun[c])
       IN  /\ skipNextWrite' = [skipNextWrite EXCEPT ![c] = e.skip]
           /\ isFirstRun' = [isFirstRun EXCEPT ![c] = e.first]
           /\ depLoading' = [depLoading EXCEPT ![c] = e.dep]
           /\ wq' = [wq EXCEPT ![c] = wq[c] \o e.out]
           /\ calls' = [calls EXCEPT ![c].onWriteError = @ + e.werr]
    /\ dirty' = [dirty EXCEPT ![c] = FALSE]
    /\ UNCHANGED <<cfg, store, hyd, rd, state, isLoading, ready, inbox,
                   mutLoad, lastMut, nMut>>
    /\ UNCHANGED <<nPost, svars, cvars>>

\* The backend executes the read issued by hydrate(): idbGetItem's result is
\* fixed now and handed to the container in a later task.
ReadExec(c) ==
    /\ hyd[c] = "reading"
    /\ hyd' = [hyd EXCEPT ![c] = "answered"]
    /\ rd' = [rd EXCEPT ![c] = IdbGetItem(Slot(c))]
    /\ UNCHANGED <<cfg, store, state, isLoading, ready, skipNextWrite, isFirstRun,
                   dirty, depLoading, wq, inbox, calls, mutLoad, lastMut, nMut>>
    /\ UNCHANGED <<nPost, svars, cvars>>

\* Mutant of HydrateDone: isLoading is not cleared.
HydrateDone_KeepsLoading(c) ==
    /\ hyd[c] = "answered"
    /\ ~dirty[c]
    /\ LET storedValue == rd[c]
           st1 == HydratedValue(c, storedValue, state[c])
           perr == IF storedValue # Null /\ ~ReadValue(c, storedValue).ok THEN 1 ELSE 0
           trig == (storedValue # Null /\ Changed(state[c], st1)) \/ depLoading[c]
           e == Flush(c, trig, st1, FALSE, skipNextWrite[c])
           thrown == cfg[c].oh = "throw"
       IN  /\ state' = [state EXCEPT ![c] = st1]
           /\ ready' = [ready EXCEPT ![c] = IF thrown THEN Rejected(CallbackError)
                                            ELSE Resolved(st1)]
           /\ calls' = [calls EXCEPT ![c].onParseError = @ + perr,
                                     ![c].onHydrated = @ + 1,
                                     ![c].onHydrationError = IF thrown THEN @ + 1 ELSE @,
                                     ![c].hydrationError = IF thrown THEN CallbackError ELSE @,
                                     ![c].settle = @ + 1,
                                     ![c].onWriteError = @ + e.werr]
           /\ skipNextWrite' = [skipNextWrite EXCEPT ![c] = e.skip]
           /\ isFirstRun' = [isFirstRun EXCEPT ![c] = e.first]
           /\ depLoading' = [depLoading EXCEPT ![c] = e.dep]
           /\ wq' = [wq EXCEPT ![c] = wq[c] \o e.out]
           /\ hyd' = [hyd EXCEPT ![c] = IF thrown THEN "failed" ELSE "done"]
    /\ UNCHANGED isLoading
    /\ UNCHANGED <<cfg, store, rd, dirty, inbox, mutLoad, lastMut, nMut>>
    /\ UNCHANGED <<nPost, svars, cvars>>

\* hydrate() resumes after `await idbGetItem` with the value read.  The
\* call of onHydrated is inside the try block: if the callback throws,
\* the catch block calls onHydrationError and rejects ready.
HydrateDone(c) ==
    /\ hyd[c] = "answered"
    /\ ~dirty[c]
    /\ LET storedValue == rd[c]
           st1 == HydratedValue(c, storedValue, state[c])
           perr == IF storedValue # Null /\ ~ReadValue(c, storedValue).ok THEN 1 ELSE 0
           trig == (storedValue # Null /\ Changed(state[c], st1)) \/ depLoading[c]
           e == Flush(c, trig, st1, FALSE, skipNextWrite[c])
           thrown == cfg[c].oh = "throw"
       IN  /\ state' = [state EXCEPT ![c] = st1]
           /\ ready' = [ready EXCEPT ![c] = IF thrown THEN Rejected(CallbackError)
                                            ELSE Resolved(st1)]
           /\ calls' = [calls EXCEPT ![c].onParseError = @ + perr,
                                     ![c].onHydrated = @ + 1,
                                     ![c].onHydrationError = IF thrown THEN @ + 1 ELSE @,
                                     ![c].hydrationError = IF thrown THEN CallbackError ELSE @,
                                     ![c].settle = @ + 1,
                                     ![c].onWriteError = @ + e.werr]
           /\ skipNextWrite' = [skipNextWrite EXCEPT ![c] = e.skip]
           /\ isFirstRun' = [isFirstRun EXCEPT ![c] = e.first]
           /\ depLoading' = [depLoading EXCEPT ![c] = e.dep]
           /\ wq' = [wq EXCEPT ![c] = wq[c] \o e.out]
           /\ hyd' = [hyd EXCEPT ![c] = IF thrown THEN "failed" ELSE "done"]
    /\ isLoading' = [isLoading EXCEPT ![c] = FALSE]
    /\ UNCHANGED <<cfg, store, rd, dirty, inbox, mutLoad, lastMut, nMut>>
    /\ UNCHANGED <<nPost, svars, cvars>>

\* Mutant of HydrateFail: the catch block does not clear isLoading.
HydrateFail_KeepsLoading(c, error) ==
    /\ hyd[c] = "reading"
    /\ ~dirty[c]
    /\ calls' = [calls EXCEPT ![c].onHydrationError = @ + 1,
                              ![c].hydrationError = error,
                              ![c].settle = @ + 1]
    /\ ready' = [ready EXCEPT ![c] = Rejected(error)]
    /\ hyd' = [hyd EXCEPT ![c] = "failed"]
    /\ UNCHANGED <<cfg, store, rd, state, isLoading, skipNextWrite, isFirstRun,
                   depLoading, wq, dirty, inbox, mutLoad, lastMut, nMut>>
    /\ UNCHANGED <<nPost, svars, cvars>>

\* Mutant of HydrateFail: the catch block does not reject ready.
HydrateFail_NoReject(c, error) ==
    /\ hyd[c] = "reading"
    /\ ~dirty[c]
    /\ LET e == Flush(c, depLoading[c], state[c], FALSE, skipNextWrite[c])
       IN  /\ calls' = [calls EXCEPT ![c].onHydrationError = @ + 1,
                                     ![c].hydrationError = error,
                                     ![c].onWriteError = @ + e.werr]
           /\ skipNextWrite' = [skipNextWrite EXCEPT ![c] = e.skip]
           /\ isFirstRun' = [isFirstRun EXCEPT ![c] = e.first]
           /\ depLoading' = [depLoading EXCEPT ![c] = e.dep]
           /\ wq' = [wq EXCEPT ![c] = wq[c] \o e.out]
    /\ isLoading' = [isLoading EXCEPT ![c] = FALSE]
    /\ hyd' = [hyd EXCEPT ![c] = "failed"]
    /\ UNCHANGED <<cfg, store, rd, state, ready, dirty, inbox, mutLoad, lastMut, nMut>>
    /\ UNCHANGED <<nPost, svars, cvars>>

\* hydrate()'s catch: opening the database or the read failed.
HydrateFail(c, error) ==
    /\ hyd[c] = "reading"
    /\ ~dirty[c]
    /\ LET e == Flush(c, depLoading[c], state[c], FALSE, skipNextWrite[c])
       IN  /\ calls' = [calls EXCEPT ![c].onHydrationError = @ + 1,
                                     ![c].hydrationError = error,
                                     ![c].settle = @ + 1,
                                     ![c].onWriteError = @ + e.werr]
           /\ skipNextWrite' = [skipNextWrite EXCEPT ![c] = e.skip]
           /\ isFirstRun' = [isFirstRun EXCEPT ![c] = e.first]
           /\ depLoading' = [depLoading EXCEPT ![c] = e.dep]
           /\ wq' = [wq EXCEPT ![c] = wq[c] \o e.out]
    /\ isLoading' = [isLoading EXCEPT ![c] = FALSE]
    /\ ready' = [ready EXCEPT ![c] = Rejected(error)]
    /\ hyd' = [hyd EXCEPT ![c] = "failed"]
    /\ UNCHANGED <<cfg, store, rd, state, dirty, inbox, mutLoad, lastMut, nMut>>
    /\ UNCHANGED <<nPost, svars, cvars>>

\* The oldest idbSetItem of container c completes: the value is stored and
\* the .then callback posts {key, value} to every other channel of the name.
WriteDone(c) ==
    /\ wq[c] # <<>>
    /\ LET v == Head(wq[c])
           msg == [key |-> cfg[c].key, value |-> v]
       IN  /\ store' = IdbSetItem(Slot(c), v)
           /\ inbox' = [d \in Cont |->
                          IF cfg[c].sync /\ d \in Peers(c)
                          THEN Append(inbox[d], msg) ELSE inbox[d]]
    /\ wq' = [wq EXCEPT ![c] = Tail(wq[c])]
    /\ UNCHANGED <<cfg, hyd, rd, state, isLoading, ready, skipNextWrite, isFirstRun,
                   dirty, depLoading, calls, mutLoad, lastMut, nMut>>
    /\ UNCHANGED <<nPost, svars, cvars>>

\* Mutant of Receive: a value that fails to parse resets state to
\* initialValue.
Receive_ResetsOnParseError(c) ==
    /\ inbox[c] # <<>>
    /\ ~dirty[c]
    /\ LET event == Head(inbox[c])
           match == event.key = cfg[c].key
           value == ReadValue(c, event.value)
           st1 == IF match /\ value.ok THEN value.v
                  ELSE IF match THEN cfg[c].init ELSE state[c]
           sk1 == IF match THEN value.ok ELSE skipNextWrite[c]
           perr == IF match /\ ~value.ok THEN 1 ELSE 0
           trig == match /\ Changed(state[c], st1)
           e == Flush(c, trig, st1, isLoading[c], sk1)
       IN  /\ state' = [state EXCEPT ![c] = st1]
           /\ calls' = [calls EXCEPT ![c].onParseError = @ + perr,
                                     ![c].onWriteError = @ + e.werr]
           /\ skipNextWrite' = [skipNextWrite EXCEPT ![c] = e.skip]
           /\ isFirstRun' = [isFirstRun EXCEPT ![c] = e.first]
           /\ depLoading' = [depLoading EXCEPT ![c] = e.dep]
           /\ wq' = [wq EXCEPT ![c] = wq[c] \o e.out]
    /\ inbox' = [inbox EXCEPT ![c] = Tail(inbox[c])]
    /\ UNCHANGED <<cfg, store, hyd, rd, isLoading, ready, dirty, mutLoad, lastMut, nMut>>
    /\ UNCHANGED <<nPost, svars, cvars>>

\* Mutant of Receive: the key of the message is not compared.
Receive_AnyKey(c) ==
    /\ inbox[c] # <<>>
    /\ ~dirty[c]
    /\ LET event == Head(inbox[c])
           value == ReadValue(c, event.value)
           st1 == IF value.ok THEN value.v ELSE state[c]
           sk1 == value.ok
           perr == IF ~value.ok THEN 1 ELSE 0
           trig == value.ok /\ Changed(state[c], st1)
           e == Flush(c, trig, st1, isLoading[c], sk1)
       IN  /\ state' = [state EXCEPT ![c] = st1]
           /\ calls' = [calls EXCEPT ![c].onParseError = @ + perr,
                                     ![c].onWriteError = @ + e.werr]
           /\ skipNextWrite' = [skipNextWrite EXCEPT ![c] = e.skip]
           /\ isFirstRun' = [isFirstRun EXCEPT ![c] = e.first]
           /\ depLoading' = [depLoading EXCEPT ![c] = e.dep]
           /\ wq' = [wq EXCEPT ![c] = wq[c] \o e.out]
    /\ inbox' = [inbox EXCEPT ![c] = Tail(inbox[c])]
    /\ UNCHANGED <<cfg, store, hyd, rd, isLoading, ready, dirty, mutLoad, lastMut, nMut>>
    /\ UNCHANGED <<nPost, svars, cvars>>

\* broadcastChannel.onmessage, and the effect run it schedules.
Receive(c) ==
    /\ inbox[c] # <<>>
    /\ ~dirty[c]
    /\ LET event == Head(inbox[c])
           match == event.key = cfg[c].key
           value == ReadValue(c, event.value)
           st1 == IF match /\ value.ok THEN value.v ELSE state[c]
           sk1 == IF match THEN value.ok ELSE skipNextWrite[c]
           perr == IF match /\ ~value.ok THEN 1 ELSE 0
           trig == match /\ value.ok /\ Changed(state[c], st1)
           e == Flush(c, trig, st1, isLoading[c], sk1)
       IN  /\ state' = [state EXCEPT ![c] = st1]
           /\ calls' = [calls EXCEPT ![c].onParseError = @ + perr,
                                     ![c].onWriteError = @ + e.werr]
           /\ skipNextWrite' = [skipNextWrite EXCEPT ![c] = e.skip]
           /\ isFirstRun' = [isFirstRun EXCEPT ![c] = e.first]
           /\ depLoading' = [depLoading EXCEPT ![c] = e.dep]
           /\ wq' = [wq EXCEPT ![c] = wq[c] \o e.out]
    /\ inbox' = [inbox EXCEPT ![c] = Tail(inbox[c])]
    /\ UNCHANGED <<cfg, store, hyd, rd, isLoading, ready, dirty, mutLoad, lastMut, nMut>>
    /\ UNCHANGED <<nPost, svars, cvars>>

\* Mutant of WriteFail: the message is posted although the write rejected.
WriteFail_Broadcasts(c) ==
    /\ wq[c] # <<>>
    /\ wq' = [wq EXCEPT ![c] = Tail(wq[c])]
    /\ calls' = [calls EXCEPT ![c].onWriteError = @ + 1]
    /\ inbox' = [d \in Cont |->
                   IF cfg[c].sync /\ d \in Peers(c)
                   THEN Append(inbox[d], [key |-> cfg[c].key, value |-> Head(wq[c])])
                   ELSE inbox[d]]
    /\ UNCHANGED <<cfg, store, hyd, rd, state, isLoading, ready, skipNextWrite,
                   isFirstRun, dirty, depLoading, mutLoad, lastMut, nMut>>
    /\ UNCHANGED <<nPost, svars, cvars>>

\* The oldest idbSetItem of container c rejects: .catch(onWriteError).
WriteFail(c) ==
    /\ wq[c] # <<>>
    /\ wq' = [wq EXCEPT ![c] = Tail(wq[c])]
    /\ calls' = [calls EXCEPT ![c].onWriteError = @ + 1]
    /\ UNCHANGED <<cfg, store, hyd, rd, state, isLoading, ready, skipNextWrite,
                   isFirstRun, dirty, depLoading, inbox, mutLoad, lastMut, nMut>>
    /\ UNCHANGED <<nPost, svars, cvars>>

\* The raw values other code of the origin posts: what a container with these
\* options stores, and a text that is not JSON.
Posted == IF cfg["A"].ser THEN {JNum(MaxVal), Bad} ELSE {Num(MaxVal)}

\* Other code of the origin posts {key, value} on the channel of database db1
\* (new BroadcastChannel(name).postMessage(...)): every container with a
\* channel of that name gets the message.
Post(k, v) ==
    /\ nPost < MaxPost
    /\ \E d \in Cont : HasChannel(d) /\ cfg[d].db = "db1"
    /\ inbox' = [d \in Cont |->
                   IF HasChannel(d) /\ cfg[d].db = "db1"
                   THEN Append(inbox[d], [key |-> k, value |-> v]) ELSE inbox[d]]
    /\ nPost' = nPost + 1
    /\ UNCHANGED <<cfg, store, hyd, rd, state, isLoading, ready, skipNextWrite,
                   isFirstRun, dirty, depLoading, wq, calls, mutLoad, lastMut, nMut>>
    /\ UNCHANGED <<svars, cvars>>

\* ---------------------------------------------------------- persistedState
\* An option that is not given; the numbers given are not negative.
Undefined == -1

\* cookieOptions: expireDays and maxAge; path, domain, secure, sameSite and
\* httpOnly are left at their defaults.
NoCookieOptions == [expireDays |-> Undefined, maxAge |-> Undefined]

\* Options of persistedState; the serializer is the default, JSON.
SOptions(k, st, sy, tr) ==
    [key |-> k, storage |-> st, sync |-> sy, init |-> Num(0), br |-> tr, bw |-> tr,
     quota |-> FALSE, cookieOptions |-> NoCookieOptions,
     cookieExpireDays |-> Undefined, browser |-> TRUE]

\* The same options with a beforeRead that throws.
ReadThrows(o) == [o EXCEPT !.br = "throw"]

\* The same options where the storage area is at its quota, so that a
\* setItem may throw.
AtQuota(o) == [o EXCEPT !.quota = TRUE]

\* Calls of the callbacks and of the backend's setItem; threw counts the
\* setItem calls that threw, seen the storage events dispatched at the tab.
NoSCalls == [onWriteError |-> 0, onParseError |-> 0, setItem |-> 0,
             threw |-> 0, seen |-> 0]

\* sLast before any mutation; resets counts the calls of reset() in a row
\* that end the mutations made so far.
SNoMut == [c |-> "none", v |-> Null, clean |-> FALSE, chg |-> FALSE, resets |-> 0]

\* No persistedState container exists in the behaviour.
SyncAtRest ==
    /\ scfg = [c \in Cont |-> SOptions("k1", "local", TRUE, "id")]
    /\ sphase = [c \in Cont |-> "absent"]
    /\ sstate = [c \in Cont |-> Num(0)]
    /\ sdirty = [c \in Cont |-> FALSE]
    /\ localStorage = [k \in Keys |-> Null]
    /\ sessionStorage = [c \in Cont |-> [k \in Keys |-> Null]]
    /\ cookie = [k \in Keys |-> Null]
    /\ cookieString = [k \in Keys |-> Null]
    /\ events = [c \in Cont |-> <<>>]
    /\ scalls = [c \in Cont |-> NoSCalls]
    /\ sLast = SNoMut
    /\ nSMut = 0
    /\ nEv = 0

\* The empty text; `item ? ... : ...` treats it like null.
Empty == [t |-> "empty", n |-> 0]
Truthy(raw) == raw.t \notin {"null", "empty"}

\* encodeURIComponent / decodeURIComponent of a stored text: digits are kept,
\* the braces, quotes and colon of an object's JSON text are percent-encoded.
EncodeURIComponent(text) ==
    CASE text.t = "jnum" -> text
      [] text.t = "jobj" -> [t |-> "ejobj", n |-> text.n]
      [] text.t = "bad" -> [t |-> "ebad", n |-> 0]

DecodeURIComponent(text) ==
    CASE text.t = "jnum" -> text
      [] text.t = "ejobj" -> [t |-> "jobj", n |-> text.n]
      [] text.t = "ebad" -> [t |-> "bad", n |-> 0]

\* getCookie(name) and setCookie(name, value, options) on document.cookie ck.
GetCookie(ck, name) ==
    IF ck[name] = Null THEN Null ELSE DecodeURIComponent(ck[name])

\* Lines 238-241: the deprecated cookieExpireDays, if given, replaces
\* cookieOptions.expireDays.
FinalCookieOptions(c) ==
    [scfg[c].cookieOptions EXCEPT
        !.expireDays = IF scfg[c].cookieExpireDays # Undefined
                       THEN scfg[c].cookieExpireDays ELSE @]

\* Mutant of CookieAttributes: expires is written whether or not maxAge is
\* given.
CookieAttributes_ExpiresAlways(options) ==
    LET expireDays == IF options.expireDays = Undefined THEN 365
                      ELSE options.expireDays
    IN  [maxAge |-> options.maxAge, expires |-> expireDays]

\* setCookie, lines 148-167: the max-age attribute, or else the expires
\* attribute as the number of days after Date.now().
CookieAttributes(options) ==
    LET expireDays == IF options.expireDays = Undefined THEN 365
                      ELSE options.expireDays
    IN  IF options.maxAge # Undefined
        THEN [maxAge |-> options.maxAge, expires |-> Undefined]
        ELSE [maxAge |-> Undefined, expires |-> expireDays]

\* The browser drops at once a cookie whose max-age is 0 or whose expires
\* date is not in the future.
Expired(attrs) ==
    IF attrs.maxAge # Undefined THEN attrs.maxAge = 0 ELSE attrs.expires = 0

SetCookie(ck, name, value, options) ==
    [ck EXCEPT ![name] = IF Expired(CookieAttributes(options)) THEN Null
                         ELSE EncodeURIComponent(value)]

\* getStorage(storage).getItem(key) on the storage areas ls, ss, ck.
GetItem(c, ls, ss, ck) ==
    CASE ~scfg[c].browser -> Null
      [] scfg[c].storage = "local" -> ls[scfg[c].key]
      [] scfg[c].storage = "session" -> ss[c][scfg[c].key]
      [] scfg[c].storage = "cookie" -> GetCookie(ck, scfg[c].key)

\* Mutant of StoredValue: no test that an item is stored; JSON.parse(null)
\* is null.
StoredValue_NoAbsentCheck(c) ==
    LET item == GetItem(c, localStorage, sessionStorage, cookie)
        parsed == IF Truthy(item) THEN Parse(item) ELSE Ok(Null)
    IN  IF parsed.ok THEN Transform(scfg[c].br, parsed.v) ELSE Threw

\* Mutant of StoredValue: an unparsable item silently yields initialValue.
StoredValue_SilentFallback(c) ==
    LET item == GetItem(c, localStorage, sessionStorage, cookie)
        parsed == IF Truthy(item) THEN Parse(item) ELSE Threw
        value == IF parsed.ok THEN Transform(scfg[c].br, parsed.v) ELSE Threw
    IN  IF Truthy(item) /\ value.ok THEN value ELSE Ok(scfg[c].init)

\* Mutant of StoredValue: beforeRead is not applied.
StoredValue_NoBeforeRead(c) ==
    LET item == GetItem(c, localStorage, sessionStorage, cookie)
    IN  IF Truthy(item) THEN Parse(item) ELSE Ok(scfg[c].init)

\* Lines 248-254: the value the container starts with.
StoredValue(c) ==
    LET item == GetItem(c, localStorage, sessionStorage, cookie)
        parsed == IF Truthy(item) THEN Parse(item) ELSE Threw
    IN  IF ~Truthy(item) THEN Ok(scfg[c].init)
        ELSE IF parsed.ok THEN Transform(scfg[c].br, parsed.v)
        ELSE Threw

\* Mutant of SWriteValue: beforeWrite is not applied.
SWriteValue_NoBeforeWrite(c, value) == Stringify(value)

\* serializer.stringify(beforeWrite(value)), line 260-261.
SWriteValue(c, value) ==
    LET valueToStore == Transform(scfg[c].bw, value)
    IN  IF valueToStore.ok THEN Stringify(valueToStore.v) ELSE Threw

\* The tabs whose window is dispatched a storage event when tab c changes
\* localStorage: every other live one.
OtherTabs(c) == {d \in Cont \ {c} : sphase[d] = "live"}

\* Mutant of UpdateStorage: a throwing setItem is swallowed without calling
\* onWriteError.
UpdateStorage_Silent(c, value, fail) ==
    LET w == SWriteValue(c, value)
        k == scfg[c].key
        st == scfg[c].storage
    IN  IF ~w.ok
        THEN [ls |-> localStorage, ss |-> sessionStorage, ck |-> cookie, ev |-> events,
              cs |-> cookieString,
              calls |-> [scalls[c] EXCEPT !.onWriteError = @ + 1]]
        ELSE IF fail /\ st # "cookie"
        THEN [ls |-> localStorage, ss |-> sessionStorage, ck |-> cookie, ev |-> events,
              cs |-> cookieString,
              calls |-> [scalls[c] EXCEPT !.setItem = @ + 1, !.threw = @ + 1]]
        ELSE [ls |-> IF st = "local" THEN [localStorage EXCEPT ![k] = w.v]
                     ELSE localStorage,
              ss |-> IF st = "session" THEN [sessionStorage EXCEPT ![c][k] = w.v]
                     ELSE sessionStorage,
              ck |-> IF st = "cookie"
                     THEN SetCookie(cookie, k, w.v, FinalCookieOptions(c))
                     ELSE cookie,
              cs |-> IF st = "cookie"
                     THEN [cookieString EXCEPT
                              ![k] = CookieAttributes(FinalCookieOptions(c))]
                     ELSE cookieString,
              ev |-> [d \in Cont |->
                        IF st = "local" /\ localStorage[k] # w.v /\ d \in OtherTabs(c)
                        THEN Append(events[d],
                                    [key |-> k, newValue |-> w.v, area |-> "local"])
                        ELSE events[d]],
              calls |-> [scalls[c] EXCEPT !.setItem = @ + 1]]

\* updateStorage(value), lines 258-265, with the backend's setItem throwing
\* iff fail (a cookie assignment never throws).  Result: the storage areas,
\* the pending storage events (a changed localStorage entry is notified to
\* the other tabs) and the container's call counts.
UpdateStorage(c, value, fail) ==
    LET w == SWriteValue(c, value)
        k == scfg[c].key
        st == scfg[c].storage
    IN  IF ~w.ok
        THEN [ls |-> localStorage, ss |-> sessionStorage, ck |-> cookie, ev |-> events,
              cs |-> cookieString,
              calls |-> [scalls[c] EXCEPT !.onWriteError = @ + 1]]
        ELSE IF ~scfg[c].browser
        THEN [ls |-> localStorage, ss |-> sessionStorage, ck |-> cookie, ev |-> events,
              cs |-> cookieString, calls |-> scalls[c]]
        ELSE IF fail /\ st # "cookie"
        THEN [ls |-> localStorage, ss |-> sessionStorage, ck |-> cookie, ev |-> events,
              cs |-> cookieString,
              calls |-> [scalls[c] EXCEPT !.setItem = @ + 1, !.threw = @ + 1,
                                          !.onWriteError = @ + 1]]
        ELSE [ls |-> IF st = "local" THEN [localStorage EXCEPT ![k] = w.v]
                     ELSE localStorage,
              ss |-> IF st = "session" THEN [sessionStorage EXCEPT ![c][k] = w.v]
                     ELSE sessionStorage,
              ck |-> IF st = "cookie"
                     THEN SetCookie(cookie, k, w.v, FinalCookieOptions(c))
                     ELSE cookie,
              cs |-> IF st = "cookie"
                     THEN [cookieString EXCEPT
                              ![k] = CookieAttributes(FinalCookieOptions(c))]
                     ELSE cookieString,
              ev |-> [d \in Cont |->
                        IF st = "local" /\ localStorage[k] # w.v /\ d \in OtherTabs(c)
                        THEN Append(events[d],
                                    [key |-> k, newValue |-> w.v, area |-> "local"])
                        ELSE events[d]],
              calls |-> [scalls[c] EXCEPT !.setItem = @ + 1]]

\* The effect does not run: nothing is written.
NoUpdate(c) ==
    [ls |-> localStorage, ss |-> sessionStorage, ck |-> cookie, cs |-> cookieString,
     ev |-> events, calls |-> scalls[c]]

\* Mutant of Listens: the listener is registered for every storage type.
Listens_AnyStorage(c) == scfg[c].sync

\* Line 267: the storage listener is registered.
Listens(c) == scfg[c].sync /\ scfg[c].browser /\ scfg[c].storage = "local"

\* Mutant of Handles: the storage area of the event is not compared.
Handles_AnyArea(c, event) == event.key = scfg[c].key

\* Line 269: the listener acts on the event.
Handles(c, event) == event.key = scfg[c].key /\ event.area = "local"

\* Lines 271-272: the value the listener assigns, or a throw.
NewValue(c, event) ==
    LET newValue == IF Truthy(event.newValue) THEN Parse(event.newValue)
                    ELSE Ok(scfg[c].init)
    IN  IF newValue.ok THEN Transform(scfg[c].br, newValue.v) ELSE Threw

\* Whether a setItem of the container's backend throws.
Fails(c) == IF scfg[c].quota THEN BOOLEAN ELSE {FALSE}

\* persistedState(key, initialValue, options) in a browser: the initial read,
\* the listener, and the effect scheduled for its first run.
SConstruct(c) ==
    /\ sphase[c] = "none"
    /\ \A d \in Cont : Earlier(d, c) => sphase[d] # "none"
    /\ LET storedValue == StoredValue(c)
       IN  /\ sstate' = [sstate EXCEPT ![c] = IF storedValue.ok THEN storedValue.v
                                               ELSE scfg[c].init]
           /\ scalls' = [scalls EXCEPT ![c].onParseError =
                                          IF storedValue.ok THEN @ ELSE @ + 1]
    /\ sphase' = [sphase EXCEPT ![c] = "live"]
    /\ sdirty' = [sdirty EXCEPT ![c] = TRUE]
    /\ UNCHANGED <<scfg, localStorage, sessionStorage, cookie, cookieString, events, sLast,
                   nSMut, nEv>>
    /\ UNCHANGED <<avars, cvars>>

\* The holder's assignment to current (or value), and reset().
SAssign(c, v) ==
    /\ sphase[c] = "live"
    /\ nSMut < MaxMut
    /\ sstate' = [sstate EXCEPT ![c] = v]
    /\ sdirty' = [sdirty EXCEPT ![c] = sdirty[c] \/ Changed(sstate[c], v)]
    /\ sLast' = [c |-> c, v |-> v, clean |-> ~sdirty[c], chg |-> Changed(sstate[c], v),
                 resets |-> 0]
    /\ nSMut' = nSMut + 1
    /\ UNCHANGED <<scfg, sphase, localStorage, sessionStorage, cookie, cookieString, events,
                   scalls, nEv>>
    /\ UNCHANGED <<avars, cvars>>

SSet(c) == \E v \in Vals : SAssign(c, v)

\* Mutant of SReset: the assignment does not schedule the effect.
SReset_NotPersisted(c) ==
    /\ sphase[c] = "live"
    /\ nSMut < MaxMut + MaxReset
    /\ sstate' = [sstate EXCEPT ![c] = scfg[c].init]
    /\ sLast' = [c |-> c, v |-> scfg[c].init, clean |-> ~sdirty[c],
                 chg |-> Changed(sstate[c], scfg[c].init),
                 resets |-> IF sLast.c = c THEN sLast.resets + 1 ELSE 1]
    /\ nSMut' = nSMut + 1
    /\ UNCHANGED <<scfg, sphase, sdirty, localStorage, sessionStorage, cookie,
                   cookieString, events, scalls, nEv>>
    /\ UNCHANGED <<avars, cvars>>

\* reset(): state = initialValue.
SReset(c) ==
    /\ sphase[c] = "live"
    /\ nSMut < MaxMut + MaxReset
    /\ sstate' = [sstate EXCEPT ![c] = scfg[c].init]
    /\ sdirty' = [sdirty EXCEPT ![c] = sdirty[c] \/ Changed(sstate[c], scfg[c].init)]
    /\ sLast' = [c |-> c, v |-> scfg[c].init, clean |-> ~sdirty[c],
                 chg |-> Changed(sstate[c], scfg[c].init),
                 resets |-> IF sLast.c = c THEN sLast.resets + 1 ELSE 1]
    /\ nSMut' = nSMut + 1
    /\ UNCHANGED <<scfg, sphase, localStorage, sessionStorage, cookie, cookieString, events,
                   scalls, nEv>>
    /\ UNCHANGED <<avars, cvars>>

\* Mutant of SEffectRun: the first run of the effect writes nothing.
SEffectRun_SkipsFirstRun(c) ==
    /\ sdirty[c]
    /\ \E fail \in Fails(c) :
         LET u == IF scalls[c].setItem = 0 /\ sLast.c # c THEN NoUpdate(c)
                  ELSE UpdateStorage(c, sstate[c], fail)
         IN  /\ localStorage' = u.ls
             /\ sessionStorage' = u.ss
             /\ cookie' = u.ck
             /\ cookieString' = u.cs
             /\ events' = u.ev
             /\ scalls' = [scalls EXCEPT ![c] = u.calls]
    /\ sdirty' = [sdirty EXCEPT ![c] = FALSE]
    /\ UNCHANGED <<scfg, sphase, sstate, sLast, nSMut, nEv>>
    /\ UNCHANGED <<avars, cvars>>

\* The scheduled effect runs: updateStorage(state).
SEffectRun(c) ==
    /\ sdirty[c]
    /\ \E fail \in Fails(c) :
         LET u == UpdateStorage(c, sstate[c], fail)
         IN  /\ localStorage' = u.ls
             /\ sessionStorage' = u.ss
             /\ cookie' = u.ck
             /\ cookieString' = u.cs
             /\ events' = u.ev
             /\ scalls' = [scalls EXCEPT ![c] = u.calls]
    /\ sdirty' = [sdirty EXCEPT ![c] = FALSE]
    /\ UNCHANGED <<scfg, sphase, sstate, sLast, nSMut, nEv>>
    /\ UNCHANGED <<avars, cvars>>

\* Mutant of StorageEvent: a value that fails to parse resets state to
\* initialValue.
StorageEvent_ResetsOnParseError(c) ==
    /\ events[c] # <<>>
    /\ ~sdirty[c]
    /\ scalls[c].seen < MaxSeen
    /\ LET event == Head(events[c])
           acts == Listens(c) /\ Handles(c, event)
           value == NewValue(c, event)
           st1 == IF acts /\ value.ok THEN value.v
                  ELSE IF acts THEN scfg[c].init ELSE sstate[c]
           perr == IF acts /\ ~value.ok THEN 1 ELSE 0
           trig == acts /\ Changed(sstate[c], st1)
       IN  \E fail \in Fails(c) :
             LET u == IF trig THEN UpdateStorage(c, st1, fail) ELSE NoUpdate(c)
             IN  /\ sstate' = [sstate EXCEPT ![c] = st1]
                 /\ localStorage' = u.ls
                 /\ sessionStorage' = u.ss
                 /\ cookie' = u.ck
                 /\ cookieString' = u.cs
                 /\ events' = [u.ev EXCEPT ![c] = Tail(events[c])]
                 /\ scalls' = [scalls EXCEPT ![c] =
                                 [u.calls EXCEPT !.onParseError = @ + perr,
                                                 !.seen = @ + 1]]
    /\ UNCHANGED <<scfg, sphase, sdirty, sLast, nSMut, nEv>>
    /\ UNCHANGED <<avars, cvars>>

\* A storage event is dispatched at the window of tab c: the listener, if
\* registered, and the effect run it schedules.
StorageEvent(c) ==
    /\ events[c] # <<>>
    /\ ~sdirty[c]
    /\ scalls[c].seen < MaxSeen
    /\ LET event == Head(events[c])
           acts == Listens(c) /\ Handles(c, event)
           value == NewValue(c, event)
           st1 == IF acts /\ value.ok THEN value.v ELSE sstate[c]
           perr == IF acts /\ ~value.ok THEN 1 ELSE 0
           trig == acts /\ value.ok /\ Changed(sstate[c], st1)
       IN  \E fail \in Fails(c) :
             LET u == IF trig THEN UpdateStorage(c, st1, fail) ELSE NoUpdate(c)
             IN  /\ sstate' = [sstate EXCEPT ![c] = st1]
                 /\ localStorage' = u.ls
                 /\ sessionStorage' = u.ss
                 /\ cookie' = u.ck
                 /\ cookieString' = u.cs
                 /\ events' = [u.ev EXCEPT ![c] = Tail(events[c])]
                 /\ scalls' = [scalls EXCEPT ![c] =
                                 [u.calls EXCEPT !.onParseError = @ + perr,
                                                 !.seen = @ + 1]]
    /\ UNCHANGED <<scfg, sphase, sdirty, sLast, nSMut, nEv>>
    /\ UNCHANGED <<avars, cvars>>

\* The texts other code of the origin stores (null: it removes the entry).
Written == {Null, Empty, JNum(MaxVal), Bad}

\* Other code of the origin, running where tab B holds no container, changes
\* an entry of localStorage (every live tab is notified) or, from a frame of
\* tab c, of the sessionStorage of tab c (that tab is notified).
ForeignWrite(c, area, k, v) ==
    /\ nEv < MaxEv
    /\ sphase[c] = "live"
    /\ \E d \in Cont : sphase[d] = "absent"
    /\ IF area = "local"
       THEN /\ localStorage[k] # v
            /\ localStorage' = [localStorage EXCEPT ![k] = v]
            /\ events' = [d \in Cont |->
                            IF sphase[d] = "live"
                            THEN Append(events[d],
                                        [key |-> k, newValue |-> v, area |-> area])
                            ELSE events[d]]
            /\ UNCHANGED sessionStorage
       ELSE /\ sessionStorage[c][k] # v
            /\ sessionStorage' = [sessionStorage EXCEPT ![c][k] = v]
            /\ events' = [events EXCEPT ![c] =
                            Append(@, [key |-> k, newValue |-> v, area |-> area])]
            /\ UNCHANGED localStorage
    /\ nEv' = nEv + 1
    /\ UNCHANGED <<scfg, sphase, sstate, sdirty, cookie, cookieString, scalls, sLast, nSMut>>
    /\ UNCHANGED <<avars, cvars>>

\* ------------------------------------------------------ indexeddb-storage.js
\* The database options of a call: <<dbName, storeName, version>>; version
\* is DEFAULT_VERSION.
Idents == {<<"db1", "s1", 1>>, <<"db2", "s1", 1>>}

\* getCacheKey(options): `${dbName}:${storeName}:${version}`.
GetCacheKey(id) == id

Idle == [op |-> "idle"]
NoResult == [st |-> "none", v |-> Null]

\* The caller is no container: it has no options and no channel.
NoUser == [id |-> <<"db1", "s1", 1>>, channel |-> "none"]

\* No call of indexeddb-storage.js is made directly in the behaviour.
StoreAtRest ==
    /\ connectionCache = [x \in Idents |-> 0]
    /\ opened = {}
    /\ ops = [p \in Cont |-> Idle]
    /\ results = [p \in Cont |-> NoResult]
    /\ nCall = 0
    /\ users = [p \in Cont |-> NoUser]

\* The persistedStateAsync container of a caller, with its indexedDB options.
User(id) == [id |-> id, channel |-> "open"]

\* openDB(options) up to the return: the cached connection, or a new
\* indexedDB.open request, which will yield connection number n.
OpenDB(id, n) ==
    LET cached == connectionCache[GetCacheKey(id)]
    IN  IF cached # 0 THEN [phase |-> "ready", conn |-> cached]
        ELSE [phase |-> "open", conn |-> n]

\* getItem(key, options) / setItem(key, value, options) is called by p.
CallItem(p, op, id, k, v) ==
    /\ ops[p] = Idle
    /\ nCall < MaxCall
    /\ LET o == OpenDB(id, nCall + 1)
       IN  ops' = [ops EXCEPT ![p] = [op |-> op, id |-> id, key |-> k, value |-> v,
                                      phase |-> o.phase, conn |-> o.conn]]
    /\ nCall' = nCall + 1
    /\ UNCHANGED <<connectionCache, opened, results, users>>
    /\ UNCHANGED <<avars, svars>>

\* request.onsuccess of openDB: the connection is cached and the promise
\* resolved.
OpenSuccess(p) ==
    /\ ops[p].op # "idle"
    /\ ops[p].phase = "open"
    /\ opened' = opened \cup {[n |-> ops[p].conn, id |-> ops[p].id]}
    /\ connectionCache' = [connectionCache EXCEPT ![GetCacheKey(ops[p].id)] = ops[p].conn]
    /\ ops' = [ops EXCEPT ![p].phase = "ready"]
    /\ UNCHANGED <<results, nCall, users>>
    /\ UNCHANGED <<avars, svars>>

\* request.onerror of openDB: the call rejects.
OpenFailed(p) ==
    /\ ops[p].op # "idle"
    /\ ops[p].phase = "open"
    /\ results' = [results EXCEPT ![p] = Rejected(OpenError)]
    /\ ops' = [ops EXCEPT ![p] = Idle]
    /\ UNCHANGED <<connectionCache, opened, nCall, users>>
    /\ UNCHANGED <<avars, svars>>

\* The transaction of the call: store.get(key) resolves with the result or
\* null, store.put(value, key) overwrites the entry.
Transact(p) ==
    /\ ops[p].op # "idle"
    /\ ops[p].phase = "ready"
    /\ LET slot == <<ops[p].id[1], ops[p].id[2], ops[p].key>>
       IN  IF ops[p].op = "get"
           THEN /\ results' = [results EXCEPT ![p] = Resolved(IdbGetItem(slot))]
                /\ UNCHANGED store
           ELSE /\ store' = IdbSetItem(slot, ops[p].value)
                /\ results' = [results EXCEPT ![p] = Resolved(Null)]
    /\ ops' = [ops EXCEPT ![p] = Idle]
    /\ UNCHANGED <<connectionCache, opened, nCall, users>>
    /\ UNCHANGED <<cfg, hyd, rd, state, isLoading, ready, skipNextWrite, isFirstRun,
                   dirty, depLoading, wq, inbox, calls, mutLoad, lastMut, nMut, nPost>>
    /\ UNCHANGED svars

\* The connections a close of the cached connection of key leaves open.
WithoutCached(key) == {o \in opened : o.n # connectionCache[key]}

\* closeDB(options): the cached connection of the options, if any, is closed
\* and removed from the cache.
CloseDB(id) ==
    /\ opened' = WithoutCached(GetCacheKey(id))
    /\ connectionCache' = [connectionCache EXCEPT ![GetCacheKey(id)] = 0]
    /\ UNCHANGED <<store, ops, results, nCall, users>>
    /\ UNCHANGED <<cfg, hyd, rd, state, isLoading, ready, skipNextWrite, isFirstRun,
                   dirty, depLoading, wq, inbox, calls, mutLoad, lastMut, nMut, nPost>>
    /\ UNCHANGED svars

\* closeAllDBs(): every cached connection is closed and the cache emptied.
CloseAllDBs ==
    /\ opened' = {o \in opened : \A x \in Idents : connectionCache[x] # o.n}
    /\ connectionCache' = [x \in Idents |-> 0]
    /\ UNCHANGED <<ops, results, nCall, users>>
    /\ UNCHANGED <<avars, svars>>

\* clearConnectionCache(): the cache is replaced by an empty one; no
\* connection is closed.
ClearConnectionCache ==
    /\ connectionCache' = [x \in Idents |-> 0]
    /\ UNCHANGED <<opened, ops, results, nCall, users>>
    /\ UNCHANGED <<avars, svars>>

\* The function returned to $effect.root by persistedStateAsync (lines
\* 425-430) runs for the container of caller p: broadcastChannel?.close() and
\* closeDB(indexedDBOptions).
Teardown(p) ==
    /\ users[p].channel = "open"
    /\ users' = [users EXCEPT ![p].channel = "closed"]
    /\ opened' = WithoutCached(GetCacheKey(users[p].id))
    /\ connectionCache' = [connectionCache EXCEPT ![GetCacheKey(users[p].id)] = 0]
    /\ UNCHANGED <<ops, results, nCall>>
    /\ UNCHANGED <<avars, svars>>

\* A live container's hydrate() or persist effect calls idbGetItem /
\* idbSetItem with the container's options.
ContainerCall(p, op, k, v) ==
    /\ users[p].channel = "open"
    /\ CallItem(p, op, users[p].id, k, v)

\* ------------------------------------------------------------ specification
\* Two containers for the same key of the same object store, syncTabs left
\* at its default (true), initialValue 0, both created with the same options:
\* with or without a serializer (JSON), with the default transforms or with
\* beforeRead and beforeWrite doubling.
Options(s, tr) ==
    [key |-> "k1", db |-> "db1", sn |-> "s1", sync |-> TRUE, init |-> Num(0),
     ser |-> s, br |-> tr, bw |-> tr, oh |-> "ok", browser |-> TRUE]

\* What the key may hold before the first container is constructed.
Stored(s, tr) ==
    IF tr = "dbl" THEN (IF s THEN {JObj(1)} ELSE {Num(1)})
    ELSE IF s THEN {Null, JNum(1), JObj(1), Bad}
    ELSE {Null, Num(1), Obj(1)}

Init ==
    /\ \E s \in BOOLEAN, tr \in {"id", "dbl"} :
         /\ cfg = [c \in Cont |-> Options(s, tr)]
         /\ \E raw \in Stored(s, tr) :
              store = [x \in Slots |-> IF x = <<"db1", "s1", "k1">> THEN raw ELSE Null]
    /\ hyd = [c \in Cont |-> "none"]
    /\ rd = [c \in Cont |-> Null]
    /\ state = [c \in Cont |-> cfg[c].init]
    /\ isLoading = [c \in Cont |-> TRUE]
    /\ ready = [c \in Cont |-> Pending]
    /\ skipNextWrite = [c \in Cont |-> FALSE]
    /\ isFirstRun = [c \in Cont |-> TRUE]
    /\ dirty = [c \in Cont |-> FALSE]
    /\ depLoading = [c \in Cont |-> FALSE]
    /\ wq = [c \in Cont |-> <<>>]
    /\ inbox = [c \in Cont |-> <<>>]
    /\ calls = [c \in Cont |-> NoCalls]
    /\ mutLoad = [c \in Cont |-> FALSE]
    /\ lastMut = NoMut
    /\ nMut = 0
    /\ nPost = 0
    /\ SyncAtRest
    /\ StoreAtRest

Next ==
    \E c \in Cont :
        \/ Construct(c)
        \/ Set(c)
        \/ Reset(c)
        \/ EffectRun(c)
        \/ ReadExec(c)
        \/ HydrateDone(c)
        \/ \E error \in {OpenError, ReadError} : HydrateFail(c, error)
        \/ WriteDone(c)
        \/ Receive(c)

Spec == Init /\ [][Next]_vars

\* -------------------------------------------- specification with failures
\* The asynchronous containers with the environment's failures and other
\* code of the origin: writes may reject, messages are posted on the channel
\* from outside; one container.
Opt(k, sy, s, r, w) ==
    [key |-> k, db |-> "db1", sn |-> "s1", sync |-> sy, init |-> Num(0),
     ser |-> s, br |-> r, bw |-> w, oh |-> "ok", browser |-> TRUE]

\* The container that stands for "no container B".
NoOpt == Opt("k2", FALSE, FALSE, "id", "id")

\* A scenario: the options of A and B, which of them exist, and what key k1
\* holds at the start.
Solo(o, raws) == {[a |-> o, b |-> NoOpt, live |-> {"A"}, raw |-> r] : r \in raws}
Duo(oa, ob, raws) == {[a |-> oa, b |-> ob, live |-> {"A", "B"}, raw |-> r] : r \in raws}

Solos ==
    \* JSON serializer; the stored text may be unparsable
    Solo(Opt("k1", TRUE, TRUE, "id", "id"), {Null, JNum(1), Bad})
    \* native storage, beforeRead throws
    \cup Solo(Opt("k1", TRUE, FALSE, "throw", "id"), {Num(1)})
    \* beforeWrite rejects initialValue
    \cup Solo(Opt("k1", TRUE, TRUE, "id", "pos"), {Null, JNum(1)})
    \cup Solo(Opt("k1", TRUE, FALSE, "id", "pos"), {Null})

Duos ==
    \* two keys of one database
    Duo(Opt("k1", TRUE, FALSE, "id", "id"), Opt("k2", TRUE, FALSE, "id", "id"), {Null, Num(1)})
    \* one key, one container with syncTabs: false
    \cup Duo(Opt("k1", TRUE, FALSE, "id", "id"), Opt("k1", FALSE, FALSE, "id", "id"), {Null, Num(1)})
    \cup Duo(Opt("k1", FALSE, FALSE, "id", "id"), Opt("k1", TRUE, FALSE, "id", "id"), {Null, Num(1)})

AsyncInitOf(scenarios) ==
    /\ \E sc \in scenarios :
         /\ cfg = [c \in Cont |-> IF c = "A" THEN sc.a ELSE sc.b]
         /\ store = [x \in Slots |-> IF x = <<"db1", "s1", "k1">> THEN sc.raw ELSE Null]
         /\ hyd = [c \in Cont |-> IF c \in sc.live THEN "none" ELSE "absent"]
    /\ rd = [c \in Cont |-> Null]
    /\ state = [c \in Cont |-> cfg[c].init]
    /\ isLoading = [c \in Cont |-> TRUE]
    /\ ready = [c \in Cont |-> Pending]
    /\ skipNextWrite = [c \in Cont |-> FALSE]
    /\ isFirstRun = [c \in Cont |-> TRUE]
    /\ dirty = [c \in Cont |-> FALSE]
    /\ depLoading = [c \in Cont |-> FALSE]
    /\ wq = [c \in Cont |-> <<>>]
    /\ inbox = [c \in Cont |-> <<>>]
    /\ calls = [c \in Cont |-> NoCalls]
    /\ mutLoad = [c \in Cont |-> FALSE]
    /\ lastMut = NoMut
    /\ nMut = 0
    /\ nPost = 0

InitOf(scenarios) ==
    /\ AsyncInitOf(scenarios)
    /\ SyncAtRest
    /\ StoreAtRest

InitFaults == InitOf(Solos)

NextFaults ==
    \/ \E c \in Cont :
        \/ Construct(c)
        \/ Set(c)
        \/ Reset(c)
        \/ EffectRun(c)
        \/ ReadExec(c)
        \/ HydrateDone(c)
        \/ \E error \in {OpenError, ReadError} : HydrateFail(c, error)
        \/ WriteDone(c)
        \/ WriteFail(c)
        \/ Receive(c)
    \/ \E k \in Keys, v \in Posted : Post(k, v)

SpecFaults == InitFaults /\ [][NextFaults]_vars

\* ------------------------------------ specification with differing options
\* Two containers of one database whose keys or syncTabs options differ.
InitPeers == InitOf(Duos)

SpecPeers == InitPeers /\ [][Next]_vars

\* ------------------------------- specification with writes that may fail
\* Two containers for one key with syncTabs true, whose writes may reject:
\* in the same object store, in two object stores of one database, and in
\* two databases.
InStore(o, sn) == [o EXCEPT !.sn = sn]
InDB(o, db) == [o EXCEPT !.db = db]

Pairs ==
    Duo(Opt("k1", TRUE, FALSE, "id", "id"), Opt("k1", TRUE, FALSE, "id", "id"), {Null})
    \cup Duo(Opt("k1", TRUE, TRUE, "id", "id"), Opt("k1", TRUE, TRUE, "id", "id"), {JNum(1)})
    \cup Duo(Opt("k1", TRUE, FALSE, "id", "id"),
             InStore(Opt("k1", TRUE, FALSE, "id", "id"), "s2"), {Null, Num(1)})
    \cup Duo(Opt("k1", TRUE, FALSE, "id", "id"),
             InDB(Opt("k1", TRUE, FALSE, "id", "id"), "db2"), {Null, Num(1)})

InitPairs == InitOf(Pairs)

NextPairs ==
    \E c \in Cont :
        \/ Construct(c)
        \/ Set(c)
        \/ Reset(c)
        \/ EffectRun(c)
        \/ ReadExec(c)
        \/ HydrateDone(c)
        \/ \E error \in {OpenError, ReadError} : HydrateFail(c, error)
        \/ WriteDone(c)
        \/ WriteFail(c)
        \/ Receive(c)

SpecPairs == InitPairs /\ [][NextPairs]_vars

\* ------------------------------------- specification, hydration callbacks
\* One container, with an onHydrated callback that returns or throws, over a
\* backend whose open or read may fail.
HydratedThrows(o) == [o EXCEPT !.oh = "throw"]

Hydrations ==
    Solo(Opt("k1", TRUE, TRUE, "id", "id"), {Null, JNum(1), Bad})
    \cup Solo(Opt("k1", TRUE, FALSE, "dbl", "id"), {Null, Num(1)})
    \cup Solo(HydratedThrows(Opt("k1", TRUE, FALSE, "id", "id")), {Null, Num(1)})

InitHydrate == InitOf(Hydrations)

NextHydrate ==
    \E c \in Cont :
        \/ Construct(c)
        \/ Set(c)
        \/ Reset(c)
        \/ EffectRun(c)
        \/ ReadExec(c)
        \/ HydrateDone(c)
        \/ \E error \in {OpenError, ReadError} : HydrateFail(c, error)
        \/ WriteDone(c)

SpecHydrate == InitHydrate /\ [][NextHydrate]_vars

\* -------------------------------------------- specification, persistedState
\* One persistedState container per tab, two tabs of one origin, with other
\* code of the origin writing to the storage areas.
SNone == SOptions("k2", "session", FALSE, "id")

\* A scenario: the options of the containers of tabs A and B, which of them
\* exist, and the text stored under k1 at the start.
Tabs(oa, ob, live, raws) == {[a |-> oa, b |-> ob, live |-> live, raw |-> r] : r \in raws}

SScenarios ==
    \* two tabs that sync through localStorage
    Tabs(SOptions("k1", "local", TRUE, "id"), SOptions("k1", "local", TRUE, "id"),
         {"A", "B"}, {Null, JNum(1)})
    \* syncTabs: false next to a syncing tab
    \cup Tabs(SOptions("k1", "local", FALSE, "id"), SOptions("k1", "local", TRUE, "id"),
              {"A", "B"}, {Null})
    \* one tab; the stored text may be unparsable
    \cup Tabs(SOptions("k1", "local", TRUE, "id"), SNone, {"A"}, {Null, JObj(1), Bad})
    \* one tab whose beforeRead throws
    \cup Tabs(ReadThrows(SOptions("k1", "local", TRUE, "id")), SNone, {"A"}, {JNum(1)})
    \* one tab whose localStorage is at its quota
    \cup Tabs(AtQuota(SOptions("k1", "local", TRUE, "id")), SNone, {"A"}, {Null})
    \* one tab, doubling transforms
    \cup Tabs(SOptions("k1", "local", TRUE, "dbl"), SNone, {"A"}, {Null, JNum(1)})
    \* sessionStorage and cookie backends with syncTabs: true
    \cup Tabs(SOptions("k1", "session", TRUE, "id"), SNone, {"A"}, {Null, JNum(1)})
    \cup Tabs(SOptions("k1", "cookie", TRUE, "id"), SNone, {"A"}, {Null, JObj(1), Bad})

\* No persistedStateAsync container exists in the behaviour.
AsyncAtRest ==
    /\ cfg = [c \in Cont |-> NoOpt]
    /\ store = [x \in Slots |-> Null]
    /\ hyd = [c \in Cont |-> "absent"]
    /\ rd = [c \in Cont |-> Null]
    /\ state = [c \in Cont |-> Num(0)]
    /\ isLoading = [c \in Cont |-> TRUE]
    /\ ready = [c \in Cont |-> Pending]
    /\ skipNextWrite = [c \in Cont |-> FALSE]
    /\ isFirstRun = [c \in Cont |-> TRUE]
    /\ dirty = [c \in Cont |-> FALSE]
    /\ depLoading = [c \in Cont |-> FALSE]
    /\ wq = [c \in Cont |-> <<>>]
    /\ inbox = [c \in Cont |-> <<>>]
    /\ calls = [c \in Cont |-> NoCalls]
    /\ mutLoad = [c \in Cont |-> FALSE]
    /\ lastMut = NoMut
    /\ nMut = 0
    /\ nPost = 0

SyncInitOf(scenarios) ==
    /\ \E sc \in scenarios :
         /\ scfg = [c \in Cont |-> IF c = "A" THEN sc.a ELSE sc.b]
         /\ sphase = [c \in Cont |-> IF c \in sc.live THEN "none" ELSE "absent"]
         /\ localStorage = [k \in Keys |-> IF k = "k1" THEN sc.raw ELSE Null]
         /\ cookie = [k \in Keys |-> IF k = "k1" /\ sc.raw # Null
                                     THEN EncodeURIComponent(sc.raw) ELSE Null]
         /\ cookieString = [k \in Keys |-> Null]
         /\ sessionStorage = [c \in Cont |->
                               [k \in Keys |-> IF k = "k1" THEN sc.raw ELSE Null]]
    /\ sstate = [c \in Cont |-> scfg[c].init]
    /\ sdirty = [c \in Cont |-> FALSE]
    /\ events = [c \in Cont |-> <<>>]
    /\ scalls = [c \in Cont |-> NoSCalls]
    /\ sLast = SNoMut
    /\ nSMut = 0
    /\ nEv = 0

SInitOf(scenarios) ==
    /\ AsyncAtRest
    /\ StoreAtRest
    /\ SyncInitOf(scenarios)

InitSync == SInitOf(SScenarios)

NextSync ==
    \E c \in Cont :
        \/ SConstruct(c)
        \/ SSet(c)
        \/ SEffectRun(c)
        \/ StorageEvent(c)
        \/ \E area \in {"local", "session"}, k \in Keys, v \in Written :
             ForeignWrite(c, area, k, v)

SpecSync == InitSync /\ [][NextSync]_vars

\* ------------------------------------- specification, persistedState reset
\* One persistedState container whose holder assigns and resets it.
RScenarios ==
    Tabs(SOptions("k1", "local", TRUE, "id"), SNone, {"A"}, {Null, JNum(1)})
    \cup Tabs(SOptions("k1", "local", TRUE, "dbl"), SNone, {"A"}, {JNum(1)})
    \cup Tabs(AtQuota(SOptions("k1", "local", TRUE, "id")), SNone, {"A"}, {Null})
    \cup Tabs(SOptions("k1", "session", TRUE, "id"), SNone, {"A"}, {Null, JObj(1)})
    \cup Tabs(SOptions("k1", "cookie", TRUE, "id"), SNone, {"A"}, {Null, JObj(1)})

InitReset == SInitOf(RScenarios)

NextReset ==
    \E c \in Cont :
        \/ SConstruct(c)
        \/ SSet(c)
        \/ SReset(c)
        \/ SEffectRun(c)

SpecReset == InitReset /\ [][NextReset]_vars

\* ----------------------------------- specification, persistedState cookies
\* One cookie container, with and without each of cookieOptions.expireDays,
\* cookieOptions.maxAge and the deprecated cookieExpireDays.
WithCookie(o, expireDays, maxAge, cookieExpireDays) ==
    [o EXCEPT !.cookieOptions = [expireDays |-> expireDays, maxAge |-> maxAge],
              !.cookieExpireDays = cookieExpireDays]

CScenarios ==
    UNION {Tabs(WithCookie(SOptions("k1", "cookie", TRUE, "id"), e, a, d), SNone, {"A"},
                {Null, JObj(1)}) :
           e \in {Undefined, 0, 7}, a \in {Undefined, 0, 60}, d \in {Undefined, 30}}

InitCookie == SInitOf(CScenarios)

NextCookie ==
    \E c \in Cont :
        \/ SConstruct(c)
        \/ SSet(c)
        \/ SEffectRun(c)

SpecCookie == InitCookie /\ [][NextCookie]_vars

\* ------------------------------------ specification, indexeddb-storage.js
\* Two callers of getItem and setItem, with nothing stored at the start.
InitStore ==
    /\ AsyncAtRest
    /\ SyncAtRest
    /\ StoreAtRest

\* The options and keys of the calls, and the values stored.
Called == {<<id, k>> \in Idents \X Keys : id[1] = "db1" \/ k = "k1"}
Puts == {Num(0), Obj(MaxVal)}

NextStore ==
    \E p \in Cont :
        \/ \E x \in Called :
             \/ CallItem(p, "get", x[1], x[2], Null)
             \/ \E v \in Puts : CallItem(p, "set", x[1], x[2], v)
        \/ OpenSuccess(p)
        \/ OpenFailed(p)
        \/ Transact(p)

SpecStore == InitStore /\ [][NextStore]_vars

\* ------------------------ specification, closing the database connections
\* Two persistedStateAsync containers with syncTabs true, of one database or
\* of two, reading and writing key k1 through indexeddb-storage.js, being
\* torn down, with other code calling closeDB, closeAllDBs and
\* clearConnectionCache.
InitClose ==
    /\ AsyncAtRest
    /\ SyncAtRest
    /\ connectionCache = [x \in Idents |-> 0]
    /\ opened = {}
    /\ ops = [p \in Cont |-> Idle]
    /\ results = [p \in Cont |-> NoResult]
    /\ nCall = 0
    /\ \E id \in Idents : users = [p \in Cont |-> IF p = "A" THEN User(<<"db1", "s1", 1>>)
                                                    ELSE User(id)]

NextClose ==
    \/ \E p \in Cont :
        \/ ContainerCall(p, "get", "k1", Null)
        \/ ContainerCall(p, "set", "k1", Obj(MaxVal))
        \/ OpenSuccess(p)
        \/ OpenFailed(p)
        \/ Transact(p)
        \/ Teardown(p)
    \/ \E id \in Idents : CloseDB(id)
    \/ CloseAllDBs
    \/ ClearConnectionCache

SpecClose == InitClose /\ [][NextClose]_vars

\* ------------------------------------------ specification, outside a browser
\* A persistedState container and a persistedStateAsync container created
\* where window is not defined (a server, a worker), by code whose effects
\* run.  An idbSetItem issued there rejects where indexedDB is not defined
\* and succeeds where it is (a worker).
Outside(o) == [o EXCEPT !.browser = FALSE]

AsyncOutside == Solo(Outside(Opt("k1", TRUE, FALSE, "id", "id")), {Null, Num(1)})

SyncOutside ==
    Tabs(Outside(SOptions("k1", "local", TRUE, "id")), SNone, {"A"}, {Null, JNum(1)})
    \cup Tabs(Outside(SOptions("k1", "cookie", TRUE, "dbl")), SNone, {"A"}, {JNum(1)})
    \cup Tabs(Outside(SOptions("k1", "session", TRUE, "pos")), SNone, {"A"}, {Null})

InitOutside ==
    /\ AsyncInitOf(AsyncOutside)
    /\ SyncInitOf(SyncOutside)
    /\ StoreAtRest

NextOutside ==
    \E c \in Cont :
        \/ ConstructOutside(c)
        \/ Set(c)
        \/ Reset(c)
        \/ EffectRun(c)
        \/ WriteDone(c)
        \/ WriteFail(c)
        \/ SConstruct(c)
        \/ SSet(c)
        \/ SEffectRun(c)

SpecOutside == InitOutside /\ [][NextOutside]_vars

\* ------------------------------------------------------------------- claims
\* Steps of a behaviour, recognised by what they change.
HydrateDoneStep(c) == hyd[c] = "answered" /\ hyd'[c] = "done"
HydrateFailStep(c) == hyd[c] = "reading" /\ hyd'[c] = "failed"
ConstructStep(c) == hyd[c] = "none" /\ hyd'[c] = "reading"
AssignStep(c) == nMut' = nMut + 1 /\ lastMut'.c = c
EffectRunStep(c) == dirty[c] /\ ~dirty'[c]
ReceiveStep(c) == inbox[c] # <<>> /\ inbox'[c] = Tail(inbox[c])
WriteEndStep(c) == wq[c] # <<>> /\ wq'[c] = Tail(wq[c])
StorageEventStep(c) == scalls'[c].seen = scalls[c].seen + 1
SConstructStep(c) == sphase[c] = "none" /\ sphase'[c] = "live"
SAssignStep(c) == nSMut' = nSMut + 1 /\ sLast'.c = c
SResetStep(c) == SAssignStep(c) /\ sLast'.resets > 0
SEffectRunStep(c) == sdirty[c] /\ ~sdirty'[c]

AllHydrated == \A c \in Cont : hyd[c] = "done"
IdentityTransforms == \A c \in Cont : cfg[c].br = "id" /\ cfg[c].bw = "id"

\* The last holder mutation was made on c when every container was hydrated
\* and nothing was outstanding, it changed c's current value, and everything
\* it caused has drained.
DrainedAfterMutationOf(c) ==
    /\ lastMut.c = c
    /\ lastMut.clean
    /\ lastMut.chg
    /\ AllHydrated
    /\ Quiescent

\* C1: a value the holder assigned while the container was loading is still
\* the current value when hydration completes, whatever the read returned.
C1_MutationSurvivesHydration ==
    [][\A c \in Cont :
         (HydrateDoneStep(c) /\ mutLoad[c] /\ lastMut.c = c /\ lastMut.chg
            /\ state[c] = lastMut.v)
            => state'[c] = lastMut.v]_vars

\* C2: with identity transforms, whenever all containers are hydrated and no
\* write or message is outstanding, all containers hold the same current
\* value and it is the value stored under the key.  (Stated for the states
\* that follow a mutation made after hydration.)
C2_Convergence ==
    \A a \in Cont :
        (DrainedAfterMutationOf(a) /\ IdentityTransforms)
            => \A c \in Cont :
                 /\ state[c] = state[a]
                 /\ store[Slot(c)] # Null
                 /\ ReadValue(c, store[Slot(c)]) = Ok(state[c])

\* C3: after A's holder sets current = v and everything drains, B.current is
\* B.beforeRead applied to (the parse of) the value A persisted.
C3_Propagation ==
    \A a \in Cont, b \in Cont :
        (a # b /\ DrainedAfterMutationOf(a) /\ WriteValue(a, lastMut.v).ok)
            => Ok(state[b]) = ReadValue(b, WriteValue(a, lastMut.v).v)

\* C4: a mutation made after hydration is written to the backend: once the
\* pending work has drained the backend holds serialize-or-native(
\* beforeWrite(v)) for the container's last mutation v.
C4_MutationPersisted ==
    \A c \in Cont :
        (DrainedAfterMutationOf(c) /\ WriteValue(c, lastMut.v).ok)
            => Ok(store[Slot(c)]) = WriteValue(c, lastMut.v)

\* C5: completing hydration with a stored value present issues no backend
\* write (and so no broadcast) of the just-hydrated value.
C5_HydrationIsNotPersisted ==
    [][\A c \in Cont :
         (HydrateDoneStep(c) /\ rd[c] # Null) => wq'[c] = wq[c]]_vars

\* C6 as stated: ready settles at most once and, when it resolves, its value
\* is the stored value after parse / beforeRead, or initialValue if nothing
\* was stored.
C6_ReadyResolvesStoredOrInitial ==
    \A c \in Cont :
        /\ calls[c].settle <= 1
        /\ (ready[c].st = "resolved" /\ rd[c] = Null) => ready[c].v = cfg[c].init
        /\ (ready[c].st = "resolved" /\ rd[c] # Null /\ ReadValue(c, rd[c]).ok)
              => ready[c].v = ReadValue(c, rd[c]).v

\* C6, amended: resolveReady / rejectReady are called at most once per
\* container; ready is settled exactly when hydrate() has resumed from the
\* read (resolved on an answer, rejected on a failure), which nothing but a
\* pending effect run delays; once settled it never changes; and it resolves
\* with the current value at that moment: the stored value after parse /
\* beforeRead, initialValue if that throws, and, if nothing was stored, the
\* value current had just before (initialValue unless it was changed while
\* loading).
C6_ReadySettlesOnce ==
    /\ [](\A c \in Cont :
            /\ calls[c].settle <= 1
            /\ (calls[c].settle = 1) <=> (ready[c].st # "pending")
            /\ (hyd[c] \in {"none", "reading", "answered"}) <=> (ready[c].st = "pending")
            /\ (hyd[c] = "done") <=> (ready[c].st = "resolved")
            /\ (hyd[c] = "failed") <=> (ready[c].st = "rejected")
            /\ (hyd[c] = "answered") => (dirty[c] \/ ENABLED HydrateDone(c)))
    /\ [][\A c \in Cont :
            /\ (ready[c].st # "pending") => (ready'[c] = ready[c])
            /\ HydrateDoneStep(c) =>
                 /\ ready'[c] = Resolved(state'[c])
                 /\ state'[c] =
                      IF rd[c] = Null THEN state[c]
                      ELSE IF ReadValue(c, rd[c]).ok THEN ReadValue(c, rd[c]).v
                      ELSE cfg[c].init]_vars

\* C6 witness: ready resolved with a value the holder assigned while loading,
\* nothing being stored.
C6_Witness ==
    \E c \in Cont :
        /\ hyd[c] = "done"
        /\ rd[c] = Null
        /\ mutLoad[c]
        /\ ready[c].st = "resolved"
        /\ ready[c].v # cfg[c].init
        /\ calls[c].settle = 1

\* C7: isLoading is true from construction until hydrate() has finished
\* (with a value, with the parse-error fallback, or with a failure), that
\* happens once per container, and once isLoading is false no later step
\* makes it true again.
C7_LoadingOneWay ==
    /\ [](\A c \in Cont :
            /\ (hyd[c] \in {"reading", "answered"}) => isLoading[c]
            /\ (hyd[c] \in {"done", "failed"}) => ~isLoading[c]
            /\ calls[c].onHydrated + calls[c].onHydrationError
                 = IF hyd[c] \in {"done", "failed"} THEN 1 ELSE 0)
    /\ [][\A c \in Cont :
            /\ (hyd[c] # "none" /\ ~isLoading[c]) => ~isLoading'[c]
            /\ (hyd[c] \in {"done", "failed"}) => (hyd'[c] = hyd[c])]_vars

\* C7 witness: a container that was hydrated, then mutated by its holder, and
\* whose write has completed.
C7_Witness ==
    \E c \in Cont :
        /\ hyd[c] = "done"
        /\ ~isLoading[c]
        /\ lastMut.c = c /\ lastMut.chg /\ ~mutLoad[c]
        /\ ~dirty[c] /\ wq[c] = <<>>
        /\ Ok(store[Slot(c)]) = WriteValue(c, lastMut.v)

\* beforeRead(parse(r)), or beforeRead(r) without a serializer.
Decoded(c, r) ==
    LET parsed == IF cfg[c].ser THEN Parse(r) ELSE Ok(r)
    IN  IF parsed.ok THEN Transform(cfg[c].br, parsed.v) ELSE Threw

C10_HydrationFailure ==
    /\ [](\A c \in Cont :
            (hyd[c] = "failed") =>
                /\ ~isLoading[c]
                /\ calls[c].onHydrationError = 1
                /\ calls[c].onHydrated = 0
                /\ calls[c].hydrationError \in {OpenError, ReadError}
                /\ ready[c] = Rejected(calls[c].hydrationError))
    /\ [][\A c \in Cont :
            /\ HydrateFailStep(c) => state'[c] = state[c]
            /\ AssignStep(c) => state'[c] = lastMut'.v]_vars

\* C10 witness: a container whose hydration failed and whose holder then
\* assigned a new value.
C10_Witness ==
    \E c \in Cont :
        /\ hyd[c] = "failed"
        /\ lastMut.c = c /\ lastMut.chg /\ ~mutLoad[c]
        /\ state[c] = lastMut.v
        /\ state[c] # cfg[c].init

\* C11: when the stored value does not decode (serializer.parse or beforeRead
\* throws), hydration calls onParseError once, sets current to initialValue
\* and completes normally: isLoading false, onHydrated called, ready resolved
\* with initialValue, onHydrationError not called.
C11_HydrationParseError ==
    [][\A c \in Cont :
         (HydrateDoneStep(c) /\ rd[c] # Null /\ ~Decoded(c, rd[c]).ok)
            => /\ state'[c] = cfg[c].init
               /\ calls'[c].onParseError = calls[c].onParseError + 1
               /\ calls'[c].onHydrated = 1
               /\ calls'[c].onHydrationError = 0
               /\ ~isLoading'[c]
               /\ ready'[c] = Resolved(cfg[c].init)]_vars

\* C11 witness: a container whose beforeRead threw on the stored value, after
\* its holder had assigned another value while loading.
C11_Witness ==
    \E c \in Cont :
        /\ hyd[c] = "done"
        /\ cfg[c].br = "throw"
        /\ rd[c] = Num(1)
        /\ mutLoad[c]
        /\ lastMut.v # cfg[c].init
        /\ state[c] = cfg[c].init
        /\ calls[c].onParseError = 1
        /\ ready[c] = Resolved(cfg[c].init)

\* C12: a failing persist calls onWriteError and leaves current alone, and
\* later mutations are still written.  (1) When beforeWrite or stringify
\* throws in the effect, onWriteError is called once, current keeps its value
\* and no write is issued.  (2) A write that ends either stored its value or
\* called onWriteError once, and current keeps its value.  (3) After a
\* failure, the effect run for a holder mutation made after hydration, with
\* no inbound message being suppressed and a value that can be written,
\* issues the write of that value.
C12_WriteFailure ==
    [][\A c \in Cont :
         /\ (EffectRunStep(c) /\ ~WriteValue(c, state[c]).ok)
               => /\ calls'[c].onWriteError = calls[c].onWriteError + 1
                  /\ state'[c] = state[c]
                  /\ wq'[c] = wq[c]
         /\ WriteEndStep(c)
               => /\ state' = state
                  /\ \/ /\ store' = IdbSetItem(Slot(c), Head(wq[c]))
                        /\ calls' = calls
                     \/ /\ store' = store
                        /\ inbox' = inbox
                        /\ calls'[c].onWriteError = calls[c].onWriteError + 1
         /\ (EffectRunStep(c) /\ calls[c].onWriteError > 0
               /\ hyd[c] = "done" /\ ~isLoading[c] /\ ~skipNextWrite[c]
               /\ lastMut.c = c /\ lastMut.chg /\ ~mutLoad[c]
               /\ state[c] = lastMut.v /\ WriteValue(c, state[c]).ok)
               => wq'[c] = Append(wq[c], WriteValue(c, state[c]).v)]_vars

\* C13: when a message for the container's key carries a value that does not
\* decode (serializer.parse or beforeRead throws), onParseError is called once
\* and current is left as it was; nothing is written.
C13_InboundParseFailure ==
    [][\A c \in Cont :
         (ReceiveStep(c) /\ Head(inbox[c]).key = cfg[c].key
            /\ ~Decoded(c, Head(inbox[c]).value).ok)
            => /\ state'[c] = state[c]
               /\ calls'[c].onParseError = calls[c].onParseError + 1
               /\ wq'[c] = wq[c]]_vars

\* C13 witness: a hydrated container whose current value is not initialValue
\* has handled an unparsable message for its key.
C13_Witness ==
    \E c \in Cont :
        /\ hyd[c] = "done"
        /\ nPost = 1
        /\ inbox[c] = <<>>
        /\ calls[c].onParseError = 1
        /\ rd[c] # Bad
        /\ cfg[c].br = "id"
        /\ state[c] # cfg[c].init

\* C14: a message whose key differs from the container's key changes neither
\* its current value, nor its suppression flag, nor what it writes or
\* reports; current changes only by the holder's assignment, by hydration
\* and by a message for the container's own key; a container for another key
\* than the one being mutated or written keeps its value and its stored
\* entry, and is only ever sent messages carrying the other key.
C14_KeyPartitioning ==
    /\ [][\A c \in Cont :
            /\ (ReceiveStep(c) /\ Head(inbox[c]).key # cfg[c].key)
                  => /\ state'[c] = state[c]
                     /\ skipNextWrite'[c] = skipNextWrite[c]
                     /\ wq'[c] = wq[c]
                     /\ calls'[c] = calls[c]
            /\ (state'[c] # state[c])
                  => \/ AssignStep(c)
                     \/ HydrateDoneStep(c)
                     \/ ReceiveStep(c) /\ Head(inbox[c]).key = cfg[c].key
            /\ \A b \in Cont :
                  (cfg[c].key # cfg[b].key /\ (AssignStep(c) \/ WriteEndStep(c)))
                     => /\ state'[b] = state[b]
                        /\ store'[Slot(b)] = store[Slot(b)]]_vars
    /\ [](\A a \in Cont, b \in Cont :
            (cfg[a].key # cfg[b].key)
               => \A i \in 1..Len(inbox[b]) : inbox[b][i].key = cfg[a].key)

\* C14 witness: A (key k1) was mutated when both containers were hydrated,
\* its write completed, and B (key k2) has handled the message.
C14_Witness ==
    /\ cfg["A"].key # cfg["B"].key
    /\ lastMut.c = "A" /\ lastMut.clean /\ lastMut.chg
    /\ Quiescent
    /\ store[Slot("A")] = lastMut.v
    /\ state["A"] = lastMut.v
    /\ state["B"] = cfg["B"].init
    /\ state["B"] # state["A"]

\* C15: a container with syncTabs: false is never sent a message and posts
\* none when its writes complete, and its current value changes only by its
\* holder's assignments and by its own hydration.
C15_NoSyncTabs ==
    /\ [](\A c \in Cont : ~cfg[c].sync => inbox[c] = <<>>)
    /\ [][\A c \in Cont :
            ~cfg[c].sync
               => /\ WriteEndStep(c) => inbox' = inbox
                  /\ (state'[c] # state[c]) => (AssignStep(c) \/ HydrateDoneStep(c))]_vars

\* C15 witness: with both containers hydrated, the holder of d changed d's
\* value, the write completed and nothing is pending; c (same key, syncTabs:
\* false) still holds another value.
C15_Witness ==
    \E c \in Cont, d \in Cont :
        /\ ~cfg[c].sync /\ cfg[d].sync
        /\ cfg[c].key = cfg[d].key
        /\ lastMut.c = d /\ lastMut.clean /\ lastMut.chg
        /\ Quiescent
        /\ store[Slot(d)] = lastMut.v
        /\ state[d] = lastMut.v
        /\ state[c] # state[d]


\* C16: an inbound update -- a storage event that changes the container's
\* current -- issues no write to the backend: setItem is not called in the
\* step that handles the event.
C16_NoEchoWrite ==
    [][\A c \in Cont :
         (StorageEventStep(c) /\ sstate'[c] # sstate[c])
         => scalls'[c].setItem = scalls[c].setItem]_vars

\* C17: when a storage event is dispatched at a container with storage
\* 'local' and syncTabs true, current becomes beforeRead(parse(newValue)), or
\* beforeRead(initialValue) if the event carries no value, provided the
\* event's key is the container's and its storage area is localStorage (and
\* beforeRead does not throw); an event for another key or another storage
\* area leaves current unchanged.
C17_StorageEventApplied ==
    [][\A c \in Cont :
         (scfg[c].storage = "local" /\ scfg[c].sync /\ StorageEventStep(c))
         => LET event == Head(events[c])
                matches == event.key = scfg[c].key /\ event.area = "local"
            IN  /\ (matches /\ event.newValue = Null
                    /\ Transform(scfg[c].br, scfg[c].init).ok)
                   => sstate'[c] = Transform(scfg[c].br, scfg[c].init).v
                /\ (matches /\ event.newValue.t \in {"jnum", "jobj"}
                    /\ Transform(scfg[c].br, Parse(event.newValue).v).ok)
                   => sstate'[c] = Transform(scfg[c].br, Parse(event.newValue).v).v
                /\ ~matches => sstate'[c] = sstate[c]]_vars

\* A container with a doubling beforeRead has applied the value another tab
\* stored.
C17_Witness ==
    \E c \in Cont :
        /\ scfg[c].storage = "local" /\ scfg[c].sync /\ scfg[c].br = "dbl"
        /\ scalls[c].seen = 1 /\ nSMut = 0
        /\ sstate[c] = Num(2 * MaxVal)

\* C18: a container with syncTabs false, or with storage 'session' or
\* 'cookie' whatever syncTabs is, does not react to storage events: a storage
\* event dispatched at its window, matching key included, leaves current
\* unchanged, and current changes only by the holder's mutations.
C18_NoListener ==
    [][\A c \in Cont :
         (sphase[c] = "live"
          /\ (~scfg[c].sync \/ scfg[c].storage \in {"session", "cookie"}))
         => /\ StorageEventStep(c) => sstate'[c] = sstate[c]
            /\ sstate'[c] # sstate[c] => SAssignStep(c)]_vars

\* A cookie container with syncTabs true was dispatched the event of another
\* tab's localStorage write under its own key, and kept its value.
C18_Witness ==
    \E c \in Cont :
        /\ scfg[c].storage = "cookie" /\ scfg[c].sync
        /\ scalls[c].seen = 1 /\ nEv = 1 /\ nSMut = 0
        /\ localStorage[scfg[c].key] = JNum(MaxVal)
        /\ sstate[c] = scfg[c].init

\* C19: when the effect of a container runs and its write succeeds, the
\* backend (localStorage, sessionStorage or the cookie) holds under the key
\* exactly stringify(beforeWrite(current)); and as long as no write failed
\* and nothing else writes the key, the stored text mirrors current whenever
\* no effect is pending, whatever mutations were made.
C19_StorageMirrorsMutation ==
    /\ [][\A c \in Cont :
            (SEffectRunStep(c) /\ scalls'[c].onWriteError = scalls[c].onWriteError)
            => GetItem(c, localStorage', sessionStorage', cookie')
               = Stringify(Transform(scfg[c].bw, sstate[c]).v).v]_vars
    /\ [](\A c \in Cont :
            (sphase[c] = "live" /\ ~sdirty[c] /\ scalls[c].threw = 0
             /\ nEv = 0 /\ OtherTabs(c) = {})
            => GetItem(c, localStorage, sessionStorage, cookie)
               = Stringify(Transform(scfg[c].bw, sstate[c]).v).v)

\* The holder of a cookie container assigned an object and the effect ran:
\* the cookie holds the percent-encoded JSON text of the object.
C19_Witness ==
    \E c \in Cont :
        /\ scfg[c].storage = "cookie"
        /\ sLast.c = c /\ sLast.v = Obj(MaxVal) /\ ~sdirty[c]
        /\ cookie[scfg[c].key] = [t |-> "ejobj", n |-> MaxVal]
        /\ GetItem(c, localStorage, sessionStorage, cookie) = JObj(MaxVal)

\* C20: when the backend's setItem throws in the effect run that follows a
\* mutation, current keeps the mutated value, the container stays usable,
\* nothing is stored, and onWriteError is called once; over a behaviour
\* onWriteError has been called exactly once per setItem that threw.
C20_WriteFailureIsolated ==
    /\ [][\A c \in Cont :
            (SEffectRunStep(c) /\ scalls'[c].threw = scalls[c].threw + 1)
            => /\ sstate'[c] = sstate[c]
               /\ sphase'[c] = "live"
               /\ scalls'[c].onWriteError = scalls[c].onWriteError + 1
               /\ GetItem(c, localStorage', sessionStorage', cookie')
                  = GetItem(c, localStorage, sessionStorage, cookie)]_vars
    /\ [](\A c \in Cont : scalls[c].onWriteError = scalls[c].threw)

\* The initial write succeeded, the holder assigned a new value and the write
\* of it threw: current has the new value, localStorage the old text.
C20_Witness ==
    \E c \in Cont :
        /\ sLast.c = c /\ sLast.chg /\ sLast.v = Num(MaxVal)
        /\ sstate[c] = Num(MaxVal) /\ ~sdirty[c]
        /\ scalls[c].threw = 1 /\ scalls[c].onWriteError = 1 /\ nEv = 0
        /\ localStorage[scfg[c].key] = JNum(0)

\* C21: when a parsable text r is stored under the key in the container's
\* backend (localStorage, sessionStorage or the cookie) at construction, the
\* container's current is beforeRead(serializer.parse(r)) as soon as it is
\* constructed (beforeRead not throwing).
C21_ConstructOverStored ==
    [][\A c \in Cont :
         LET r == GetItem(c, localStorage, sessionStorage, cookie)
         IN  (/\ SConstructStep(c)
              /\ r.t \in {"jnum", "jobj"}
              /\ Transform(scfg[c].br, Parse(r).v).ok)
             => sstate'[c] = Transform(scfg[c].br, Parse(r).v).v]_vars

\* A container with a doubling beforeRead was constructed over a stored
\* number and its effect has not run yet.
C21_Witness ==
    \E c \in Cont :
        /\ scfg[c].br = "dbl" /\ sphase[c] = "live" /\ sdirty[c] /\ nSMut = 0
        /\ localStorage[scfg[c].key] = JNum(1)
        /\ sstate[c] = Num(2)

\* C22: a container constructed when nothing is stored under its key in its
\* backend (localStorage, sessionStorage or the cookie) has current equal to
\* initialValue, and no callback is called.
C22_ConstructOverNothing ==
    [][\A c \in Cont :
         (SConstructStep(c) /\ GetItem(c, localStorage, sessionStorage, cookie) = Null)
         => sstate'[c] = scfg[c].init /\ scalls'[c] = scalls[c]]_vars

\* A cookie container was constructed with no cookie of its name.
C22_Witness ==
    \E c \in Cont :
        /\ scfg[c].storage = "cookie" /\ sphase[c] = "live" /\ sdirty[c]
        /\ cookie[scfg[c].key] = Null
        /\ sstate[c] = scfg[c].init

\* C23: when the text stored under the key cannot be parsed, or beforeRead
\* throws on the parsed value, construction completes with current equal to
\* initialValue and onParseError called once.
C23_ConstructParseFailure ==
    [][\A c \in Cont :
         LET r == GetItem(c, localStorage, sessionStorage, cookie)
         IN  (SConstructStep(c)
              /\ (r = Bad \/ (r.t \in {"jnum", "jobj"} /\ scfg[c].br = "throw")))
             => /\ sstate'[c] = scfg[c].init
                /\ sphase'[c] = "live"
                /\ scalls'[c].onParseError = scalls[c].onParseError + 1]_vars

\* A container whose beforeRead throws was constructed over a stored number.
C23_Witness ==
    \E c \in Cont :
        /\ scfg[c].br = "throw" /\ sphase[c] = "live"
        /\ scalls[c].onParseError = 1 /\ scalls[c].seen = 0
        /\ sstate[c] = scfg[c].init

\* C24: reset() sets current to initialValue, whatever mutations came
\* before; after one reset() or several in a row current is initialValue
\* (until a storage event is applied), and once the effect has run the
\* backend holds stringify(beforeWrite(initialValue)), as after any other
\* mutation (no write having failed and nothing else writing the key).
C24_ResetIdempotent ==
    /\ [][\A c \in Cont : SResetStep(c) => sstate'[c] = scfg[c].init]_vars
    /\ [](\A c \in Cont :
            (sLast.c = c /\ sLast.resets >= 1 /\ scalls[c].seen = 0)
            => /\ sstate[c] = scfg[c].init
               /\ (~sdirty[c] /\ scalls[c].threw = 0 /\ nEv = 0 /\ OtherTabs(c) = {})
                  => GetItem(c, localStorage, sessionStorage, cookie)
                     = Stringify(Transform(scfg[c].bw, scfg[c].init).v).v)

\* A cookie container whose stored object was replaced by the text of
\* initialValue after a mutation and two calls of reset() in a row.
C24_Witness ==
    \E c \in Cont :
        /\ scfg[c].storage = "cookie"
        /\ sLast.c = c /\ sLast.resets = 2 /\ nSMut = 3 /\ ~sdirty[c]
        /\ sstate[c] = scfg[c].init
        /\ cookie[scfg[c].key] = JNum(0)

\* C25: at most one connection per database identity <<dbName, storeName,
\* version>> is open at any time, also when openDB is called for the
\* identity while an earlier open request for it is in flight.
C25_OneConnection ==
    \A id \in Idents : Cardinality({c \in opened : c.id = id}) <= 1

C27_SerializerDefaultsToJSON ==
    [][\A c \in Cont :
         ~cfg[c].ser
         => /\ Len(wq'[c]) = Len(wq[c]) + 1
               => wq'[c][Len(wq'[c])]
                  = Stringify(Transform(cfg[c].bw, state'[c]).v).v
            /\ (HydrateDoneStep(c) /\ rd[c].t \in {"jnum", "jobj"})
               => state'[c] = Transform(cfg[c].br, Parse(rd[c]).v).v]_vars

\* C28: the cookie string a cookie container writes has max-age=<maxAge>
\* and no expires attribute when cookieOptions.maxAge is given, whatever
\* expireDays is (0 included); otherwise it has no max-age and an expires
\* attribute of now + expireDays days, 365 days when expireDays is not given
\* (the deprecated cookieExpireDays not being given either).
C28_CookieExpiry ==
    [][\A c \in Cont :
         (scfg[c].storage = "cookie" /\ SEffectRunStep(c))
         => LET o == scfg[c].cookieOptions
                written == cookieString'[scfg[c].key]
            IN  /\ o.maxAge # Undefined
                   => written.maxAge = o.maxAge /\ written.expires = Undefined
                /\ (o.maxAge = Undefined /\ scfg[c].cookieExpireDays = Undefined)
                   => /\ written.maxAge = Undefined
                      /\ written.expires = IF o.expireDays = Undefined THEN 365
                                            ELSE o.expireDays]_vars

\* A container given both maxAge and expireDays has written its cookie with
\* max-age only.
C28_Witness ==
    \E c \in Cont :
        /\ scfg[c].cookieOptions = [expireDays |-> 7, maxAge |-> 60]
        /\ cookieString[scfg[c].key] = [maxAge |-> 60, expires |-> Undefined]
        /\ cookie[scfg[c].key] # Null

\* C30: applying an inbound broadcast message never makes the receiving
\* container write to the backend or broadcast -- the step that handles the
\* message issues no idbSetItem and changes neither the backend nor another
\* container's inbox -- and a mutation of one holder is written by its own
\* container only: a container whose holder did not make the last mutation,
\* and which read nothing from the backend, never issues a write of the
\* mutated value it can only have got from a message.
C30_SelfEchoSuppressed ==
    [][\A c \in Cont :
         /\ ReceiveStep(c)
            => /\ wq'[c] = wq[c]
               /\ store' = store
               /\ \A d \in Cont \ {c} : inbox'[d] = inbox[d]
         /\ (/\ Len(wq'[c]) > Len(wq[c])
             /\ lastMut.c \notin {c, "none"}
             /\ rd[c] = Null
             /\ state'[c] # cfg[c].init)
            => state'[c] # lastMut.v]_vars

\* C31: the inbound suppression flag is one-shot: between tasks, with no
\* effect run pending, skipNextWrite is not set, and the effect run that
\* follows a mutation by the holder of a hydrated container (the first run
\* done, the value changed, beforeWrite and stringify not throwing) issues
\* the write of the mutated value, whatever messages the container has
\* processed before.
C31_SuppressionIsOneShot ==
    /\ [](\A c \in Cont : (hyd[c] # "none" /\ ~dirty[c]) => ~skipNextWrite[c])
    /\ [][\A c \in Cont :
            (/\ EffectRunStep(c)
             /\ lastMut.c = c /\ lastMut.chg /\ state[c] = lastMut.v
             /\ ~isLoading[c] /\ ~isFirstRun[c]
             /\ WriteValue(c, state[c]).ok)
            => wq'[c] = Append(wq[c], WriteValue(c, state[c]).v)]_vars

C33_ChannelPerIdentity ==
    [][\A c \in Cont :
         (ReceiveStep(c) /\ state'[c] # state[c])
         => \E d \in Cont \ {c} : hyd[d] # "none" /\ Slot(d) = Slot(c)]_vars

TeardownStep(p) == users[p].channel = "open" /\ users'[p].channel = "closed"

\* C34: tearing down a container closes its channel, and while another live
\* container has the same (dbName, storeName, version) the connection they
\* share stays open: the teardown closes no connection.
C34_TeardownKeepsSharedConnection ==
    [][\A p \in Cont :
         (/\ TeardownStep(p)
          /\ \E q \in Cont \ {p} : users[q] = User(users[p].id))
         => opened' = opened]_vars

\* C35: every connection that openDB opened and that was not closed is the
\* cached connection of its options, so that closeAllDBs() leaves no
\* connection open.
C35_NoLeakedConnection ==
    \A o \in opened : connectionCache[GetCacheKey(o.id)] = o.n

\* C36: per container exactly one of onHydrated and onHydrationError is
\* invoked, once, when hydrate() ends; ready resolves iff onHydrated was
\* invoked, with the value passed to it, and rejects iff onHydrationError was
\* invoked, which happens only when the open or the read failed.
C36_HydrationCallbacksExclusive ==
    /\ [](\A c \in Cont :
            /\ calls[c].onHydrated + calls[c].onHydrationError
                 = IF ready[c].st = "pending" THEN 0 ELSE 1
            /\ (ready[c].st = "resolved") <=> (calls[c].onHydrated = 1)
            /\ (ready[c].st = "rejected") <=> (calls[c].onHydrationError = 1)
            /\ (calls[c].onHydrationError = 1)
                 => calls[c].hydrationError \in {OpenError, ReadError})
    /\ [][\A c \in Cont :
            (calls'[c].onHydrated > calls[c].onHydrated)
            => ready'[c] = Resolved(state'[c])]_vars

\* C37: for a container in a browser, between tasks isLoading is true
\* exactly when ready is not settled.
C37_LoadingIffReadyPending ==
    \A c \in Cont :
        (hyd[c] \notin {"none", "absent"})
        => (isLoading[c] <=> (ready[c].st = "pending"))

\* A container with a doubling beforeRead has hydrated the stored 1: ready is
\* resolved with 2 and isLoading is false.
C37_Witness ==
    \E c \in Cont :
        /\ ~isLoading[c]
        /\ rd[c] = Num(1)
        /\ ready[c] = Resolved(Num(2))

\* C38: when a storage event for the container's key and localStorage
\* carries a text that fails to parse (serializer.parse or beforeRead
\* throws), onParseError is called once, current is left as it is and
\* nothing is written.
C38_InboundParseFailure ==
    [][\A c \in Cont :
         (/\ StorageEventStep(c)
          /\ Listens(c)
          /\ Handles(c, Head(events[c]))
          /\ ~NewValue(c, Head(events[c])).ok)
         => /\ scalls'[c].onParseError = scalls[c].onParseError + 1
            /\ sstate'[c] = sstate[c]
            /\ scalls'[c].setItem = scalls[c].setItem
            /\ localStorage' = localStorage]_vars

\* A container whose holder set current to 1 has handled an event carrying an
\* unparsable text and still holds 1.
C38_Witness ==
    \E c \in Cont :
        /\ scalls[c].onParseError = 1 /\ scalls[c].seen = 1
        /\ localStorage[scfg[c].key] = Bad
        /\ sLast.c = c /\ sstate[c] = Num(MaxVal) /\ sstate[c] # scfg[c].init
        /\ events[c] = <<>>

\* C39: constructing a container in a browser persists its starting value
\* without any mutation: when the initial effect run has written (no
\* callback called), setItem was called once and the backend holds
\* stringify(beforeWrite(current)) under the key; with nothing else writing
\* the key, that is stringify(beforeWrite(initialValue)) when nothing was
\* stored and stringify(beforeWrite(beforeRead(parse(r)))) when a parsable
\* text r was stored.
C39_ConstructionWrites ==
    [][\A c \in Cont :
         (/\ SEffectRunStep(c)
          /\ nSMut = 0 /\ scalls[c].seen = 0 /\ scalls[c].setItem = 0
          /\ scalls'[c].onWriteError = scalls[c].onWriteError)
         => LET r == GetItem(c, localStorage, sessionStorage, cookie)
                written == GetItem(c, localStorage', sessionStorage', cookie')
                alone == nEv = 0 /\ OtherTabs(c) = {}
            IN  /\ scalls'[c].setItem = 1
                /\ written = Stringify(Transform(scfg[c].bw, sstate[c]).v).v
                /\ (alone /\ r = Null)
                   => written = Stringify(Transform(scfg[c].bw, scfg[c].init).v).v
                /\ (alone /\ r.t \in {"jnum", "jobj"}
                      /\ Transform(scfg[c].br, Parse(r).v).ok)
                   => written = Stringify(Transform(scfg[c].bw,
                                   Transform(scfg[c].br, Parse(r).v).v).v).v]_vars

\* A container with doubling transforms was constructed over the stored text
\* '1' and, with no mutation, the backend now holds '4'.
C39_Witness ==
    \E c \in Cont :
        /\ scfg[c].br = "dbl" /\ scfg[c].bw = "dbl"
        /\ nSMut = 0 /\ nEv = 0 /\ ~sdirty[c]
        /\ sstate[c] = Num(2)
        /\ localStorage[scfg[c].key] = JNum(4)

\* C40: outside a browser a persistedState container starts at initialValue
\* and neither writes to a backend nor calls an error callback, whatever its
\* holder assigns; a persistedStateAsync container has isLoading false and
\* ready resolved with initialValue from construction, has no channel, and
\* issues no backend operation.
C40_InertOutsideBrowser ==
    /\ [](\A c \in Cont :
            /\ (sphase[c] = "live" /\ ~scfg[c].browser)
               => /\ scalls[c].setItem = 0
                  /\ scalls[c].onWriteError = 0
                  /\ scalls[c].onParseError = 0
            /\ (hyd[c] \notin {"none", "absent"} /\ ~cfg[c].browser)
               => /\ ~isLoading[c]
                  /\ ready[c] = Resolved(cfg[c].init)
                  /\ ~HasChannel(c)
                  /\ rd[c] = Null
                  /\ wq[c] = <<>>)
    /\ [][/\ \A c \in Cont :
               (SConstructStep(c) /\ ~scfg[c].browser) => sstate'[c] = scfg[c].init
          /\ (\A c \in Cont : ~scfg[c].browser)
               => /\ localStorage' = localStorage
                  /\ sessionStorage' = sessionStorage
                  /\ cookie' = cookie
          /\ (\A c \in Cont : ~cfg[c].browser) => store' = store]_vars
====
